---- MODULE Spec2Model ----
(***************************************************************************)
(* AI-supported data mapping system: the field mapper                      *)
(* (AIFieldMappingService), its response repair parser and its similarity  *)
(* fallback engine.                                                        *)
(*                                                                         *)
(* Representation.  A JavaScript string that the code inspects character   *)
(* by character (field names, API keys) is a sequence of one-character     *)
(* strings.  A reason text is a sequence of phrases; concatenation is \o.  *)
(* A number is an exact fraction n/d with d > 0, tagged with its typeof.   *)
(***************************************************************************)
EXTENDS Integers, Sequences, FiniteSets, TLC

VARIABLES apiKey, pc, request, fetchCount, response, path, outcome, engine,
          sheet, ui, pair, upload

\* the state of the mapper service and of one mapFields invocation
mapperVars == <<apiKey, pc, request, fetchCount, response, path, outcome>>

vars == <<mapperVars, engine, sheet, ui, pair, upload>>

(***************************************************************************)
(* Strings                                                                 *)
(***************************************************************************)
UpperChars ==
  <<"A", "B", "C", "D", "E", "F", "G", "H", "I", "J", "K", "L", "M",
    "N", "O", "P", "Q", "R", "S", "T", "U", "V", "W", "X", "Y", "Z">>

LowerChars ==
  <<"a", "b", "c", "d", "e", "f", "g", "h", "i", "j", "k", "l", "m",
    "n", "o", "p", "q", "r", "s", "t", "u", "v", "w", "x", "y", "z">>

\* String.prototype.toLowerCase, one character
LowerChar(c) ==
  IF \E i \in 1..Len(UpperChars) : UpperChars[i] = c
  THEN LowerChars[CHOOSE i \in 1..Len(UpperChars) : UpperChars[i] = c]
  ELSE c

\* String.prototype.toLowerCase
toLowerCase(s) == [i \in 1..Len(s) |-> LowerChar(s[i])]

\* String.prototype.includes(pattern): pattern occurs as a substring of s
StrIncludes(s, pattern) ==
  \E i \in 0..(Len(s) - Len(pattern)) :
    \A k \in 1..Len(pattern) : s[i + k] = pattern[k]

\* whitespace characters removed by String.prototype.trim
IsSpaceChar(c) == c \in {" ", "\n", "\t"}

\* String.prototype.trim on a character sequence
RECURSIVE TrimLeft(_)
TrimLeft(s) ==
  IF s # <<>> /\ IsSpaceChar(Head(s)) THEN TrimLeft(Tail(s)) ELSE s

RECURSIVE TrimRight(_)
TrimRight(s) ==
  IF s # <<>> /\ IsSpaceChar(s[Len(s)])
  THEN TrimRight(SubSeq(s, 1, Len(s) - 1))
  ELSE s

StrTrim(s) == TrimRight(TrimLeft(s))

\* Array.prototype.includes
SeqIncludes(seq, x) == \E i \in 1..Len(seq) : seq[i] = x

(***************************************************************************)
(* Numbers: exact fractions                                                *)
(***************************************************************************)
Num(n, d) == [t |-> "num", n |-> n, d |-> d]

NumLess(a, b) == a.n * b.d < b.n * a.d

NumLeq(a, b) == a.n * b.d <= b.n * a.d

NumEq(a, b) == a.n * b.d = b.n * a.d

\* Math.max
NumMax(a, b) == IF NumLess(a, b) THEN b ELSE a

Min3(a, b, c) ==
  IF a <= b /\ a <= c THEN a ELSE IF b <= c THEN b ELSE c

(***************************************************************************)
(* Similarity Fallback Engine                                              *)
(***************************************************************************)
\* one row of the matrix of levenshteinDistance: row j from row j - 1.
\* row[i + 1] holds matrix[j][i].
RECURSIVE levenshteinRow(_, _, _, _, _)
levenshteinRow(prev, str1, ch, i, acc) ==
  IF i > Len(str1) THEN acc
  ELSE LET indicator == IF str1[i] = ch THEN 0 ELSE 1
           cell == Min3(acc[i] + 1,            \* matrix[j][i - 1] + 1
                        prev[i + 1] + 1,       \* matrix[j - 1][i] + 1
                        prev[i] + indicator)   \* matrix[j - 1][i - 1] + indicator
       IN levenshteinRow(prev, str1, ch, i + 1, Append(acc, cell))

\* rows j.. of the matrix from row j - 1.  Every row has str1.length + 1
\* cells; testing that length makes the row a value before the next row is
\* computed from it, which keeps the evaluation shallow.
RECURSIVE levenshteinRows(_, _, _, _)
levenshteinRows(prev, str1, str2, j) ==
  IF j > Len(str2) \/ Len(prev) # Len(str1) + 1 THEN prev
  ELSE levenshteinRows(levenshteinRow(prev, str1, str2[j], 1, <<j>>),
                       str1, str2, j + 1)

\* the distance read from the last row at the cell of the shorter string
levenshteinDistance_ShortCell(str1, str2) ==
  levenshteinRows([i \in 1..(Len(str1) + 1) |-> i - 1], str1, str2, 1)
    [(IF Len(str1) < Len(str2) THEN Len(str1) ELSE Len(str2)) + 1]

\* levenshteinDistance(str1, str2) = matrix[str2.length][str1.length]
levenshteinDistance(str1, str2) ==
  levenshteinRows([i \in 1..(Len(str1) + 1) |-> i - 1], str1, str2, 1)[Len(str1) + 1]

\* calculateSimilarity dividing by one more than the longer length
calculateSimilarity_OffByOne(str1, str2) ==
  LET longer == IF Len(str1) > Len(str2) THEN str1 ELSE str2
      shorter == IF Len(str1) > Len(str2) THEN str2 ELSE str1
  IN Num(Len(longer) - levenshteinDistance(longer, shorter), Len(longer) + 1)

calculateSimilarity(str1, str2) ==
  LET longer == IF Len(str1) > Len(str2) THEN str1 ELSE str2
      shorter == IF Len(str1) > Len(str2) THEN str2 ELSE str1
  IN IF Len(longer) = 0 THEN Num(1, 1)
     ELSE Num(Len(longer) - levenshteinDistance(longer, shorter), Len(longer))

\* the rule table of findBestFallbackMatch, in its fixed iteration order
mappingRules ==
  << [target |-> <<"P", "o", "r", "t", "a", "l", " ", "N", "a", "m", "e">>,
      patterns |-> << <<"n", "a", "m", "e">>,
                    <<"t", "i", "t", "l", "e">>,
                    <<"p", "r", "o", "d", "u", "c", "t", " ", "n", "a", "m", "e">>,
                    <<"p", "r", "o", "d", "u", "c", "t", "n", "a", "m", "e">>,
                    <<"p", "o", "r", "t", "a", "l", " ", "n", "a", "m", "e">>,
                    <<"i", "t", "e", "m", " ", "n", "a", "m", "e">> >>],
     [target |-> <<"P", "r", "o", "d", "u", "c", "e", "r", " ", "N", "a", "m", "e">>,
      patterns |-> << <<"b", "r", "a", "n", "d">>,
                    <<"m", "a", "n", "u", "f", "a", "c", "t", "u", "r", "e", "r">>,
                    <<"p", "r", "o", "d", "u", "c", "e", "r">>,
                    <<"h", "e", "r", "s", "t", "e", "l", "l", "e", "r">>,
                    <<"m", "a", "k", "e">> >>],
     [target |-> <<"P", "r", "o", "d", "u", "c", "t", " ", "D", "e", "s", "c", "r", "i", "p", "t", "i", "o", "n">>,
      patterns |-> << <<"d", "e", "s", "c", "r", "i", "p", "t", "i", "o", "n">>,
                    <<"d", "e", "s", "c">>,
                    <<"d", "e", "t", "a", "i", "l", "s">>,
                    <<"b", "e", "s", "c", "h", "r", "e", "i", "b", "u", "n", "g">>,
                    <<"i", "n", "i", "t", "i", "a", "l", " ", "d", "a", "t", "a">>,
                    <<"i", "m", "p", "o", "r", "t", "a", "n", "t">> >>],
     [target |-> <<"A", "r", "t", "i", "c", "l", "e", " ", "N", "u", "m", "b", "e", "r", "/", "S", "K", "U">>,
      patterns |-> << <<"s", "k", "u">>,
                    <<"a", "r", "t", "i", "c", "l", "e">>,
                    <<"i", "t", "e", "m", " ", "n", "u", "m", "b", "e", "r">>,
                    <<"a", "r", "t", "i", "k", "e", "l">>,
                    <<"a", "r", "t", "i", "k", "e", "l", "n", "u", "m", "m", "e", "r">> >>],
     [target |-> <<"G", "T", "I", "N">>,
      patterns |-> << <<"g", "t", "i", "n">>,
                    <<"e", "a", "n">>,
                    <<"b", "a", "r", "c", "o", "d", "e">>,
                    <<"u", "p", "c">> >>],
     [target |-> <<"I", "n", "i", "t", "i", "a", "l", " ", "S", "u", "g", "g", "e", "s", "t", "e", "d", " ", "R", "e", "t", "a", "i", "l", " ", "P", "r", "i", "c", "e", " ", "(", "S", "R", "P", ")", " ", "E", "U">>,
      patterns |-> << <<"p", "r", "i", "c", "e">>,
                    <<"c", "o", "s", "t">>,
                    <<"p", "r", "e", "i", "s">>,
                    <<"m", "s", "r", "p">>,
                    <<"u", "v", "p">>,
                    <<"s", "r", "p">>,
                    <<"u", "s", "d">> >>],
     [target |-> <<"C", "u", "s", "t", "o", "m", " ", "C", "a", "t", "e", "g", "o", "r", "y">>,
      patterns |-> << <<"c", "a", "t", "e", "g", "o", "r", "y">>,
                    <<"t", "y", "p", "e">>,
                    <<"k", "a", "t", "e", "g", "o", "r", "i", "e">>,
                    <<"p", "r", "o", "d", "u", "k", "t", "t", "y", "p">>,
                    <<"p", "r", "o", "d", "u", "c", "t", " ", "c", "a", "t", "e", "g", "o", "r", "y">> >>],
     [target |-> <<"C", "o", "l", "o", "r">>,
      patterns |-> << <<"c", "o", "l", "o", "r">>,
                    <<"c", "o", "l", "o", "u", "r">>,
                    <<"f", "a", "r", "b", "e">> >>],
     [target |-> <<"C", "o", "u", "n", "t", "r", "y", " ", "o", "f", " ", "O", "r", "i", "g", "i", "n">>,
      patterns |-> << <<"c", "o", "u", "n", "t", "r", "y">>,
                    <<"o", "r", "i", "g", "i", "n">>,
                    <<"h", "e", "r", "k", "u", "n", "f", "t">>,
                    <<"l", "a", "n", "d">> >>],
     [target |-> <<"L", "i", "c", "e", "n", "c", "e", " ", "N", "a", "m", "e", " ", "(", "T", "h", "e", "m", "e", ")">>,
      patterns |-> << <<"l", "i", "c", "e", "n", "s", "e">>,
                    <<"l", "i", "c", "e", "n", "c", "e">>,
                    <<"t", "h", "e", "m", "e">>,
                    <<"f", "r", "a", "n", "c", "h", "i", "s", "e">> >>],
     [target |-> <<"C", "N", " ", "-", " ", "I", "t", "e", "m">>,
      patterns |-> << <<"c", "n">>,
                    <<"i", "t", "e", "m">>,
                    <<"c", "l", "a", "s", "s", "i", "f", "i", "c", "a", "t", "i", "o", "n">> >>],
     [target |-> <<"R", "e", "l", "e", "a", "s", "e", " ", "N", "a", "m", "e">>,
      patterns |-> << <<"r", "e", "l", "e", "a", "s", "e">>,
                    <<"e", "d", "i", "t", "i", "o", "n">>,
                    <<"s", "t", "r", "e", "e", "t", " ", "d", "a", "t", "e">> >>],
     [target |-> <<"L", "a", "n", "g", "u", "a", "g", "e", " ", "V", "e", "r", "s", "i", "o", "n">>,
      patterns |-> << <<"l", "a", "n", "g", "u", "a", "g", "e">>,
                    <<"v", "e", "r", "s", "i", "o", "n">>,
                    <<"l", "a", "n", "g">> >>] >>

\* absent value of an optional field (null / undefined)
NoField == <<>>

\* targetFields.find(tf => tf.field_name === targetName): an index or 0
FindTarget(targetFields, targetName) ==
  IF \E i \in 1..Len(targetFields) : targetFields[i] = targetName
  THEN CHOOSE i \in 1..Len(targetFields) :
         /\ targetFields[i] = targetName
         /\ \A k \in 1..(i - 1) : targetFields[k] # targetName
  ELSE 0

\* rule r applies: its target is in the catalog and one of its patterns
\* is contained in the lowercased source name
RuleHits(r, sourceLower, targetFields) ==
  /\ FindTarget(targetFields, mappingRules[r].target) # 0
  /\ \E p \in 1..Len(mappingRules[r].patterns) :
       StrIncludes(sourceLower, mappingRules[r].patterns[p])

\* the similarity loop with >= in place of >: the last of equals wins
RECURSIVE BestBySimilarity_LastOnTies(_, _, _, _, _)
BestBySimilarity_LastOnTies(sourceLower, targetFields, i, bestMatch, bestSimilarity) ==
  IF i > Len(targetFields) THEN bestMatch
  ELSE IF targetFields[i] = NoField
       THEN BestBySimilarity_LastOnTies(sourceLower, targetFields, i + 1, bestMatch, bestSimilarity)
       ELSE LET similarity == calculateSimilarity(sourceLower, toLowerCase(targetFields[i]))
            IN IF ~NumLess(similarity, bestSimilarity)
               THEN BestBySimilarity_LastOnTies(sourceLower, targetFields, i + 1, targetFields[i], similarity)
               ELSE BestBySimilarity_LastOnTies(sourceLower, targetFields, i + 1, bestMatch, bestSimilarity)

\* the similarity loop: (bestMatch, bestSimilarity) after catalog entries i..
RECURSIVE BestBySimilarity(_, _, _, _, _)
BestBySimilarity(sourceLower, targetFields, i, bestMatch, bestSimilarity) ==
  IF i > Len(targetFields) THEN bestMatch
  ELSE IF targetFields[i] = NoField
       THEN BestBySimilarity(sourceLower, targetFields, i + 1, bestMatch, bestSimilarity)
       ELSE LET similarity == calculateSimilarity(sourceLower, toLowerCase(targetFields[i]))
            IN IF NumLess(bestSimilarity, similarity)
               THEN BestBySimilarity(sourceLower, targetFields, i + 1, targetFields[i], similarity)
               ELSE BestBySimilarity(sourceLower, targetFields, i + 1, bestMatch, bestSimilarity)

\* findBestFallbackMatch: the field_name of the match, or NoField for null
findBestFallbackMatch(sourceField, targetFields) ==
  IF sourceField = NoField \/ Len(targetFields) = 0 THEN NoField
  ELSE LET sourceLower == toLowerCase(sourceField)
           hits == {r \in 1..Len(mappingRules) : RuleHits(r, sourceLower, targetFields)}
       IN IF hits # {}
          THEN LET first == CHOOSE r \in hits : \A q \in hits : r <= q
               IN targetFields[FindTarget(targetFields, mappingRules[first].target)]
          ELSE BestBySimilarity(sourceLower, targetFields, 1, targetFields[1], Num(0, 1))

\* a FieldMappingResult
Result(sourceField, targetField, confidence, reason, isRequired, isOptional) ==
  [sourceField |-> sourceField, targetField |-> targetField,
   confidence |-> confidence, reason |-> reason,
   isRequired |-> isRequired, isOptional |-> isOptional]

\* body of the loop of fallbackMapping for one source field
FallbackEntry(sourceField, targetFields) ==
  LET bestMatch == findBestFallbackMatch(sourceField, targetFields)
  IN IF bestMatch # NoField
     THEN Result(sourceField, bestMatch,
                 NumMax(Num(1, 5), calculateSimilarity(sourceField, bestMatch)),
                 <<"String similarity match (fallback - AI unavailable)">>,
                 TRUE, FALSE)
     ELSE Result(sourceField, sourceField, Num(1, 2),
                 <<"No target field match found - kept as optional (fallback)">>,
                 FALSE, TRUE)

RECURSIVE FallbackLoop(_, _, _, _)
FallbackLoop(sourceFields, targetFields, i, results) ==
  IF i > Len(sourceFields) THEN results
  ELSE IF sourceFields[i] = NoField
       THEN FallbackLoop(sourceFields, targetFields, i + 1, results)
       ELSE FallbackLoop(sourceFields, targetFields, i + 1,
                         Append(results, FallbackEntry(sourceFields[i], targetFields)))

\* fallbackMapping(request): the list it returns
fallbackMapping(req) ==
  IF Len(req.sourceFields) = 0 THEN <<>>
  ELSE IF Len(req.targetFields) = 0 THEN <<>>
  ELSE FallbackLoop(req.sourceFields, req.targetFields, 1, <<>>)

(***************************************************************************)
(* Response text and JSON                                                  *)
(*                                                                         *)
(* A response text is a sequence of lexical tokens [k, s, n, d]:           *)
(*   k = "{" "}" "[" "]" "," ":"   the punctuation character itself        *)
(*   k = "str"     a double-quoted string literal with content s           *)
(*   k = "num"     a number literal n/d                                    *)
(*   k = "true" "false" "null"   the literal                               *)
(*   k = "sp" "nl" a run of blanks, a line break                           *)
(*   k = "fencejson" "fence"     the markers ```json and ```               *)
(*   k = "prose"   a run of other characters: no brace, bracket, quote,    *)
(*                 backtick, comma, colon or white space                   *)
(*   k = "cut"     the beginning of a literal that the end of the text     *)
(*                 cuts off, as in "targetF                                *)
(* String contents hold no brace, bracket, quote or backtick.              *)
(***************************************************************************)
Tok(k) == [k |-> k, s |-> <<>>, n |-> 0, d |-> 1]

StrTok(s) == [k |-> "str", s |-> s, n |-> 0, d |-> 1]

NumTok(n, d) == [k |-> "num", s |-> <<>>, n |-> n, d |-> d]

IsWs(tok) == tok.k \in {"sp", "nl"}

\* JSON values, all of one record shape
JV(t, s, n, d, keys, items) ==
  [t |-> t, s |-> s, n |-> n, d |-> d, keys |-> keys, items |-> items]

JUndefined == JV("undefined", <<>>, 0, 1, <<>>, <<>>)

JNull == JV("null", <<>>, 0, 1, <<>>, <<>>)

JBool(b) == JV(IF b THEN "true" ELSE "false", <<>>, 0, 1, <<>>, <<>>)

JStr(s) == JV("str", s, 0, 1, <<>>, <<>>)

JNum(n, d) == JV("num", <<>>, n, d, <<>>, <<>>)

JArr(items) == JV("arr", <<>>, 0, 1, <<>>, items)

JObj(keys, items) == JV("obj", <<>>, 0, 1, keys, items)

\* property access obj[key]: the last member of that name, else undefined
Get(v, key) ==
  IF v.t = "obj" /\ \E i \in 1..Len(v.keys) : v.keys[i] = key
  THEN v.items[CHOOSE i \in 1..Len(v.keys) :
                 /\ v.keys[i] = key
                 /\ \A k \in (i + 1)..Len(v.keys) : v.keys[k] # key]
  ELSE JUndefined

\* JavaScript truthiness
Truthy(v) ==
  CASE v.t \in {"undefined", "null", "false"} -> FALSE
    [] v.t = "num" -> v.n # 0
    [] v.t = "str" -> v.s # <<>>
    [] OTHER -> TRUE

\* index of the first token at or after i that is not white space
RECURSIVE SkipWs(_, _)
SkipWs(toks, i) ==
  IF i <= Len(toks) /\ IsWs(toks[i]) THEN SkipWs(toks, i + 1) ELSE i

ParseFail == [ok |-> FALSE, v |-> JUndefined, next |-> 0]

ParseOk(v, next) == [ok |-> TRUE, v |-> v, next |-> next]

\* JSON.parse, recursive descent over the tokens
RECURSIVE ParseValue(_, _)
RECURSIVE ParseElements(_, _, _)
RECURSIVE ParseMembers(_, _, _, _)

\* elements of an array after "[" (items empty) or after a comma; "]" may
\* follow only "[" or an element
ParseElements(toks, i0, items) ==
  LET i == SkipWs(toks, i0)
  IN IF i > Len(toks) THEN ParseFail
     ELSE IF toks[i].k = "]" /\ items = <<>> THEN ParseOk(JArr(items), i + 1)
     ELSE LET e == ParseValue(toks, i)
          IN IF ~e.ok THEN ParseFail
             ELSE LET j == SkipWs(toks, e.next)
                  IN IF j > Len(toks) THEN ParseFail
                     ELSE IF toks[j].k = "]"
                          THEN ParseOk(JArr(Append(items, e.v)), j + 1)
                     ELSE IF toks[j].k = ","
                          THEN ParseElements(toks, j + 1, Append(items, e.v))
                     ELSE ParseFail

\* members of an object after "{" (keys empty) or after a comma; "}" may
\* follow only "{" or a member
ParseMembers(toks, i0, keys, items) ==
  LET i == SkipWs(toks, i0)
  IN IF i > Len(toks) THEN ParseFail
     ELSE IF toks[i].k = "}" /\ keys = <<>> THEN ParseOk(JObj(keys, items), i + 1)
     ELSE IF toks[i].k # "str" THEN ParseFail
     ELSE LET c == SkipWs(toks, i + 1)
          IN IF c > Len(toks) \/ toks[c].k # ":" THEN ParseFail
             ELSE LET e == ParseValue(toks, c + 1)
                  IN IF ~e.ok THEN ParseFail
                     ELSE LET j == SkipWs(toks, e.next)
                              ks == Append(keys, toks[i].s)
                              vs == Append(items, e.v)
                          IN IF j > Len(toks) THEN ParseFail
                             ELSE IF toks[j].k = "}" THEN ParseOk(JObj(ks, vs), j + 1)
                             ELSE IF toks[j].k = ","
                                  THEN ParseMembers(toks, j + 1, ks, vs)
                             ELSE ParseFail

ParseValue(toks, i0) ==
  LET i == SkipWs(toks, i0)
  IN IF i > Len(toks) THEN ParseFail
     ELSE CASE toks[i].k = "str" -> ParseOk(JStr(toks[i].s), i + 1)
            [] toks[i].k = "num" -> ParseOk(JNum(toks[i].n, toks[i].d), i + 1)
            [] toks[i].k = "true" -> ParseOk(JBool(TRUE), i + 1)
            [] toks[i].k = "false" -> ParseOk(JBool(FALSE), i + 1)
            [] toks[i].k = "null" -> ParseOk(JNull, i + 1)
            [] toks[i].k = "[" -> ParseElements(toks, i + 1, <<>>)
            [] toks[i].k = "{" -> ParseMembers(toks, i + 1, <<>>, <<>>)
            [] OTHER -> ParseFail

\* JSON.parse(text): [ok, v]; ok = FALSE stands for the SyntaxError
JSONparse(toks) ==
  LET r == ParseValue(toks, 1)
  IN IF r.ok /\ SkipWs(toks, r.next) > Len(toks)
     THEN [ok |-> TRUE, v |-> r.v]
     ELSE [ok |-> FALSE, v |-> JUndefined]

(***************************************************************************)
(* Response Repair Parser: performAIMapping from the response text on      *)
(***************************************************************************)
\* String.prototype.trim on a text
RECURSIVE TextTrimLeft(_)
TextTrimLeft(toks) ==
  IF toks # <<>> /\ IsWs(Head(toks)) THEN TextTrimLeft(Tail(toks)) ELSE toks

RECURSIVE TextTrimRight(_)
TextTrimRight(toks) ==
  IF toks # <<>> /\ IsWs(toks[Len(toks)])
  THEN TextTrimRight(SubSeq(toks, 1, Len(toks) - 1))
  ELSE toks

TextTrim(toks) == TextTrimRight(TextTrimLeft(toks))

HasTok(toks, k) == \E i \in 1..Len(toks) : toks[i].k = k

\* indexOf: the least index from `from` on whose token satisfies kinds, or 0
FirstOf(toks, kinds, from) ==
  IF \E i \in from..Len(toks) : toks[i].k \in kinds
  THEN CHOOSE i \in from..Len(toks) :
         /\ toks[i].k \in kinds
         /\ \A j \in from..(i - 1) : toks[j].k \notin kinds
  ELSE 0

\* lastIndexOf
LastOf(toks, kinds) ==
  IF \E i \in 1..Len(toks) : toks[i].k \in kinds
  THEN CHOOSE i \in 1..Len(toks) :
         /\ toks[i].k \in kinds
         /\ \A j \in (i + 1)..Len(toks) : toks[j].k \notin kinds
  ELSE 0

StartsWithBrace(toks) == toks # <<>> /\ toks[1].k = "{"

EndsWithBrace(toks) == toks # <<>> /\ toks[Len(toks)].k = "}"

\* endsWith('},')
EndsWithBraceComma(toks) ==
  Len(toks) >= 2 /\ toks[Len(toks)].k = "," /\ toks[Len(toks) - 1].k = "}"

IsKey(tok, key) == tok.k = "str" /\ tok.s = key

MappingsKey == <<"mappings">>

SourceFieldKey == <<"sourceField">>

\* includes('"mappings"')
IncludesMappings(toks) == \E i \in 1..Len(toks) : IsKey(toks[i], MappingsKey)

\* includes('"mappings":')
IncludesMappingsColon(toks) ==
  \E i \in 1..(Len(toks) - 1) : IsKey(toks[i], MappingsKey) /\ toks[i + 1].k = ":"

\* the fence regexes /```json\s*([\s\S]*?)\s*```/i and /```\s*([\s\S]*?)\s*```/
\* and their open-ended forms, applied at the first opening marker `open`:
\* the text after code-block extraction
ExtractFence(toks, open) ==
  LET close == FirstOf(toks, {"fencejson", "fence"}, open + 1)
      inner == IF close = 0 THEN <<>>
               ELSE TextTrim(SubSeq(toks, open + 1, close - 1))
      rest == TextTrim(SubSeq(toks, open + 1, Len(toks)))
  IN IF inner # <<>> THEN inner          \* complete code block
     ELSE IF rest # <<>> THEN rest       \* from the marker to the end
     ELSE toks

StripCodeBlock(toks) ==
  IF HasTok(toks, "fencejson")
  THEN ExtractFence(toks, FirstOf(toks, {"fencejson"}, 1))
  ELSE IF HasTok(toks, "fence")
  THEN ExtractFence(toks, FirstOf(toks, {"fence"}, 1))
  ELSE toks

\* slice from the first "{" to the last "}"
ExtractObject(toks) ==
  IF toks # <<>> /\ ~StartsWithBrace(toks) /\ HasTok(toks, "{")
  THEN LET startIndex == FirstOf(toks, {"{"}, 1)
           endIndex == LastOf(toks, {"}"})
       IN IF endIndex # 0 /\ endIndex > startIndex
          THEN SubSeq(toks, startIndex, endIndex)
          ELSE toks
  ELSE toks

\* needsRepair testing for the key with its colon
needsRepair_KeyWithColon(trimmedJson) ==
  \/ ~EndsWithBrace(trimmedJson)
  \/ EndsWithBraceComma(trimmedJson)
  \/ ~IncludesMappingsColon(trimmedJson)

needsRepair(trimmedJson) ==
  \/ ~EndsWithBrace(trimmedJson)
  \/ EndsWithBraceComma(trimmedJson)
  \/ ~IncludesMappings(trimmedJson)

\* '\n  ]\n}'
ClosingTokens == <<Tok("nl"), Tok("sp"), Tok("]"), Tok("nl"), Tok("}")>>

\* a match of /\{\s*"sourceField":[^}]+\}/ starts at i: its end index, or 0
MappingMatchEnd(toks, i) ==
  IF toks[i].k # "{" THEN 0
  ELSE LET k == SkipWs(toks, i + 1)
       IN IF /\ k + 1 <= Len(toks)
             /\ IsKey(toks[k], SourceFieldKey)
             /\ toks[k + 1].k = ":"
          THEN LET e == FirstOf(toks, {"}"}, k + 2)
               IN IF e > k + 2 THEN e ELSE 0
          ELSE 0

\* end index of the last match of matchAll(mappingPattern), or 0 for none
LastCompleteIndex(toks) ==
  LET ends == {MappingMatchEnd(toks, i) : i \in 1..Len(toks)} \ {0}
  IN IF ends = {} THEN 0 ELSE CHOOSE e \in ends : \A f \in ends : f <= e

\* the three repair strategies
repairJson(jsonText) ==
  LET trimmedJson == TextTrim(jsonText)
  IN IF EndsWithBraceComma(trimmedJson)
     THEN SubSeq(trimmedJson, 1, Len(trimmedJson) - 1) \o ClosingTokens
     ELSE IF IncludesMappingsColon(jsonText)
     THEN LET last == LastCompleteIndex(jsonText)
          IN IF last # 0 THEN SubSeq(jsonText, 1, last) \o ClosingTokens
             ELSE jsonText
     ELSE <<Tok("{"), StrTok(MappingsKey), Tok(":"), Tok("["), Tok("]"), Tok("}")>>

\* responseText.match(/"mappings"\s*:\s*\[(.*?)\]/): the captured group of the
\* match that starts at token i, as [ok, group]
MappingsArrayAt(toks, i) ==
  IF ~IsKey(toks[i], MappingsKey) THEN [ok |-> FALSE, group |-> <<>>]
  ELSE LET c == SkipWs(toks, i + 1)
       IN IF c > Len(toks) \/ toks[c].k # ":" THEN [ok |-> FALSE, group |-> <<>>]
          ELSE LET b == SkipWs(toks, c + 1)
               IN IF b > Len(toks) \/ toks[b].k # "[" THEN [ok |-> FALSE, group |-> <<>>]
                  ELSE LET e == FirstOf(toks, {"]"}, b + 1)
                       IN IF e # 0 /\ \A j \in (b + 1)..(e - 1) : toks[j].k # "nl"
                          THEN [ok |-> TRUE, group |-> SubSeq(toks, b + 1, e - 1)]
                          ELSE [ok |-> FALSE, group |-> <<>>]

\* the catch block: extract just the mappings array
lastResort(responseText) ==
  LET starts == {i \in 1..Len(responseText) : MappingsArrayAt(responseText, i).ok}
  IN IF starts = {} THEN [ok |-> FALSE, v |-> JUndefined]
     ELSE LET i == CHOOSE s \in starts : \A t \in starts : s <= t
              mappingsOnly ==
                <<Tok("{"), StrTok(MappingsKey), Tok(":"), Tok("[")>>
                \o MappingsArrayAt(responseText, i).group
                \o <<Tok("]"), Tok("}")>>
          IN JSONparse(mappingsOnly)

\* the text handed to JSON.parse inside the try block, <<>> when the
\* extraction left nothing ('No valid JSON found')
repairedJsonText(responseText) ==
  LET jsonText == ExtractObject(StripCodeBlock(TextTrim(responseText)))
  IN IF TextTrim(jsonText) = <<>> THEN <<>>
     ELSE IF needsRepair(TextTrim(jsonText)) THEN repairJson(jsonText)
     ELSE jsonText

\* the repair pipeline: aiResult as [ok, v]; ok = FALSE stands for
\* 'Invalid JSON response from Gemini API'
parseResponseText(responseText) ==
  LET first == JSONparse(repairedJsonText(responseText))
  IN IF first.ok THEN first ELSE lastResort(responseText)

(***************************************************************************)
(* Field Classifier / Mapper: parseAIResponse                              *)
(***************************************************************************)
MissingPrefix == <<"[", "M", "I", "S", "S", "I", "N", "G", "]", " ">>

StartsWithMissing(s) ==
  Len(s) >= Len(MissingPrefix) /\ SubSeq(s, 1, Len(MissingPrefix)) = MissingPrefix

UnknownName == <<"U", "n", "k", "n", "o", "w", "n">>

\* targetFields.map(tf => tf?.field_name || 'Unknown')
TargetFieldNames(targetFields) ==
  [i \in 1..Len(targetFields) |->
     IF targetFields[i] = NoField THEN UnknownName ELSE targetFields[i]]

\* the text a JSON value stands for where the code stores it as a string
FieldText(v) == IF v.t = "str" THEN v.s ELSE <<"<", v.t, ">">>

\* targetFieldNames.includes(x) for a JSON value x
NamesInclude(names, v) == v.t = "str" /\ SeqIncludes(names, v.s)

\* ValidMapping without the range test of the confidence
ValidMapping_NoRange(mapping, sourceFields) ==
  LET sf == Get(mapping, SourceFieldKey)
      c == Get(mapping, <<"confidence">>)
  IN /\ Truthy(sf)
     /\ NamesInclude(sourceFields, sf)
     /\ c.t = "num"

\* the basic validation of one mapping: TRUE when it is kept
ValidMapping(mapping, sourceFields) ==
  LET sf == Get(mapping, SourceFieldKey)
      c == Get(mapping, <<"confidence">>)
  IN /\ Truthy(sf)
     /\ NamesInclude(sourceFields, sf)
     /\ c.t = "num"
     /\ ~NumLess(c, Num(0, 1))
     /\ ~NumLess(Num(1, 1), c)

\* the classification with the two explicit flags tested in the other order
ClassifyRequired_OptionalFirst(mapping, targetFieldNames) ==
  IF Get(mapping, <<"isOptional">>).t = "true" THEN FALSE
  ELSE IF Get(mapping, <<"isRequired">>).t = "true" THEN TRUE
  ELSE IF Len(targetFieldNames) > 0
          /\ NamesInclude(targetFieldNames, Get(mapping, <<"targetField">>))
  THEN TRUE
  ELSE FALSE

\* required (TRUE) or optional (FALSE), before the post-processing pass
ClassifyRequired(mapping, targetFieldNames) ==
  IF Get(mapping, <<"isRequired">>).t = "true" THEN TRUE
  ELSE IF Get(mapping, <<"isOptional">>).t = "true" THEN FALSE
  ELSE IF Len(targetFieldNames) > 0
          /\ NamesInclude(targetFieldNames, Get(mapping, <<"targetField">>))
  THEN TRUE
  ELSE FALSE

\* MappingResult with the two flags copied from the inference entry
MappingResult_FlagsCopied(mapping, targetFieldNames) ==
  LET sf == Get(mapping, SourceFieldKey)
      tf == Get(mapping, <<"targetField">>)
      c == Get(mapping, <<"confidence">>)
      reason == Get(mapping, <<"reason">>)
  IN Result(FieldText(sf),
            IF Truthy(tf) THEN FieldText(tf) ELSE FieldText(sf),
            [t |-> c.t, n |-> c.n, d |-> c.d],
            IF Truthy(reason) THEN FieldText(reason) ELSE <<"AI-suggested mapping">>,
            Get(mapping, <<"isRequired">>).t = "true",
            Get(mapping, <<"isOptional">>).t = "true")

\* results.push for a valid mapping
MappingResult(mapping, targetFieldNames) ==
  LET sf == Get(mapping, SourceFieldKey)
      tf == Get(mapping, <<"targetField">>)
      c == Get(mapping, <<"confidence">>)
      reason == Get(mapping, <<"reason">>)
      isRequired == ClassifyRequired(mapping, targetFieldNames)
  IN Result(FieldText(sf),
            IF Truthy(tf) THEN FieldText(tf) ELSE FieldText(sf),
            [t |-> c.t, n |-> c.n, d |-> c.d],
            IF Truthy(reason) THEN FieldText(reason) ELSE <<"AI-suggested mapping">>,
            isRequired, ~isRequired)

\* MappingsLoop passing over a null element as over an invalid mapping
RECURSIVE MappingsLoop_NullSkipped(_, _, _, _, _)
MappingsLoop_NullSkipped(mappings, sourceFields, targetFieldNames, i, results) ==
  IF i > Len(mappings) THEN [ok |-> TRUE, results |-> results]
  ELSE IF mappings[i].t = "null" \/ ~ValidMapping(mappings[i], sourceFields)
       THEN MappingsLoop_NullSkipped(mappings, sourceFields, targetFieldNames, i + 1, results)
       ELSE MappingsLoop_NullSkipped(mappings, sourceFields, targetFieldNames, i + 1,
                         Append(results, MappingResult(mappings[i], targetFieldNames)))

\* the loop over aiResult.mappings: [ok, results]; a null element makes the
\* property access throw
RECURSIVE MappingsLoop(_, _, _, _, _)
MappingsLoop(mappings, sourceFields, targetFieldNames, i, results) ==
  IF i > Len(mappings) THEN [ok |-> TRUE, results |-> results]
  ELSE IF mappings[i].t = "null" THEN [ok |-> FALSE, results |-> <<>>]
  ELSE IF ~ValidMapping(mappings[i], sourceFields)
       THEN MappingsLoop(mappings, sourceFields, targetFieldNames, i + 1, results)
       ELSE MappingsLoop(mappings, sourceFields, targetFieldNames, i + 1,
                         Append(results, MappingResult(mappings[i], targetFieldNames)))

HasSource(results, sourceField) ==
  \E i \in 1..Len(results) : results[i].sourceField = sourceField

HasTarget(results, targetField) ==
  \E i \in 1..Len(results) : results[i].targetField = targetField

\* CompletenessLoop left out
CompletenessLoop_Skipped(sourceFields, i, results) == results

\* "Ensure ALL source fields are mapped"
RECURSIVE CompletenessLoop(_, _, _)
CompletenessLoop(sourceFields, i, results) ==
  IF i > Len(sourceFields) THEN results
  ELSE IF HasSource(results, sourceFields[i])
       THEN CompletenessLoop(sourceFields, i + 1, results)
       ELSE CompletenessLoop(sourceFields, i + 1,
              Append(results,
                     Result(sourceFields[i], sourceFields[i], Num(1, 2),
                            <<"AI did not map this field - kept as optional">>,
                            FALSE, TRUE)))

\* CoverageLoop looking the catalog name up among the source fields
RECURSIVE CoverageLoop_BySource(_, _, _)
CoverageLoop_BySource(targetFields, i, results) ==
  IF i > Len(targetFields) THEN results
  ELSE IF HasSource(results, targetFields[i])
       THEN CoverageLoop_BySource(targetFields, i + 1, results)
       ELSE CoverageLoop_BySource(targetFields, i + 1,
              Append(results,
                     Result(MissingPrefix \o targetFields[i], targetFields[i], Num(0, 1),
                            <<"Required field not found in source data - needs manual input">>,
                            TRUE, FALSE)))

\* "Ensure ALL required target fields are present in results"
RECURSIVE CoverageLoop(_, _, _)
CoverageLoop(targetFields, i, results) ==
  IF i > Len(targetFields) THEN results
  ELSE IF HasTarget(results, targetFields[i])
       THEN CoverageLoop(targetFields, i + 1, results)
       ELSE CoverageLoop(targetFields, i + 1,
              Append(results,
                     Result(MissingPrefix \o targetFields[i], targetFields[i], Num(0, 1),
                            <<"Required field not found in source data - needs manual input">>,
                            TRUE, FALSE)))

CorrectionNote == " (auto-corrected: exact target field match)"

\* PostProcess left out
PostProcess_Skipped(result, targetFieldNames) == result

\* the post-processing pass on one result
PostProcess(result, targetFieldNames) ==
  IF /\ Len(targetFieldNames) > 0
     /\ SeqIncludes(targetFieldNames, result.targetField)
     /\ ~result.isRequired
  THEN [result EXCEPT !.isRequired = TRUE, !.isOptional = FALSE,
                      !.reason = Append(@, CorrectionNote)]
  ELSE result

\* parseAIResponse up to the post-processing pass: [ok, results];
\* ok = FALSE stands for a thrown error
beforePostProcess(aiResult, sourceFields, targetFields) ==
  LET targetFieldNames == TargetFieldNames(targetFields)
      mappings == Get(aiResult, MappingsKey)
  IN IF aiResult.t # "obj" \/ mappings.t # "arr"
     THEN [ok |-> FALSE, results |-> <<>>]
     ELSE LET kept == MappingsLoop(mappings.items, sourceFields, targetFieldNames, 1, <<>>)
          IN IF ~kept.ok THEN kept
             ELSE LET complete == CompletenessLoop(sourceFields, 1, kept.results)
                  IN [ok |-> TRUE,
                      results |-> IF Len(targetFields) > 0
                                  THEN CoverageLoop(targetFields, 1, complete)
                                  ELSE complete]

\* parseAIResponse: [ok, results]
parseAIResponse(aiResult, sourceFields, targetFields) ==
  LET pre == beforePostProcess(aiResult, sourceFields, targetFields)
  IN IF ~pre.ok THEN pre
     ELSE [ok |-> TRUE,
           results |-> [i \in 1..Len(pre.results) |->
                          PostProcess(pre.results[i], TargetFieldNames(targetFields))]]

(***************************************************************************)
(* mapFields                                                               *)
(***************************************************************************)
HardcodedKey == <<"A", "I", "z", "a", "-", "d", "e", "v">>

PlaceholderKey ==
  <<"y", "o", "u", "r", "-", "a", "p", "i", "-", "k", "e", "y", "-", "h", "e", "r", "e">>

\* the constructor: this.apiKey from process.env.NEXT_PUBLIC_GEMINI_API_KEY
\* (NoField when unset)
Constructor(env) ==
  IF env = NoField \/ StrTrim(env) = <<>> THEN HardcodedKey ELSE env

\* the credential test of mapFields
KeyUnusable(key) ==
  key = NoField \/ key = PlaceholderKey \/ StrTrim(key) = <<>>

Returned(results) == [kind |-> "returned", results |-> results, error |-> ""]

Threw(error) == [kind |-> "threw", results |-> <<>>, error |-> error]

NoOutcome == [kind |-> "none", results |-> <<>>, error |-> ""]

NoResponse == [kind |-> "none", text |-> <<>>]

NoRequest == [present |-> FALSE, sourceFields |-> <<>>, targetFields |-> <<>>]

\* performAIMapping from the point where fetch settles: [ok, results];
\* ok = FALSE stands for any error it throws
performAIMapping(req, resp) ==
  IF resp.kind # "text" \/ resp.text = <<>>
  THEN [ok |-> FALSE, results |-> <<>>]   \* fetch rejected, !response.ok, no text
  ELSE LET aiResult == parseResponseText(resp.text)
       IN IF ~aiResult.ok THEN [ok |-> FALSE, results |-> <<>>]
          ELSE parseAIResponse(aiResult.v, req.sourceFields, req.targetFields)

\* mapFields up to the await of fetch: what it settles with, or "awaiting"
mapFieldsEntry(req, key) ==
  IF ~req.present
  THEN [pc |-> "done", path |-> "rejected", fetches |-> 0,
        outcome |-> Threw("Mapping request is null or undefined")]
  ELSE IF Len(req.sourceFields) = 0
  THEN [pc |-> "done", path |-> "empty", fetches |-> 0, outcome |-> Returned(<<>>)]
  ELSE IF KeyUnusable(key)
  THEN [pc |-> "done", path |-> "nokey", fetches |-> 0,
        outcome |-> Threw("Gemini API key is required for field mapping")]
  ELSE [pc |-> "awaiting", path |-> "none", fetches |-> 1, outcome |-> NoOutcome]

\* mapFieldsResume with one more fetch after a failure
mapFieldsResume_Retry(req, resp, fetches) ==
  LET ai == performAIMapping(req, resp)
  IN IF ai.ok
     THEN [path |-> "inference", fetches |-> fetches, outcome |-> Returned(ai.results)]
     ELSE [path |-> "fallback", fetches |-> fetches + 1,
           outcome |-> Returned(fallbackMapping(req))]

\* mapFields from the settled fetch to its return: the try / catch
mapFieldsResume(req, resp, fetches) ==
  LET ai == performAIMapping(req, resp)
  IN IF ai.ok
     THEN [path |-> "inference", fetches |-> fetches, outcome |-> Returned(ai.results)]
     ELSE [path |-> "fallback", fetches |-> fetches,
           outcome |-> Returned(fallbackMapping(req))]

(***************************************************************************)
(* Inputs                                                                  *)
(***************************************************************************)
MaxSourceFields == 2

MaxTargetFields == 2

SrcColor == <<"C", "o", "l", "o", "r">>

SrcSKU == <<"S", "K", "U">>

SrcWidget == <<"W", "i", "d", "g", "e", "t">>

SrcGhost == <<"G", "h", "o", "s", "t">>

CatColor == <<"C", "o", "l", "o", "r">>

CatSKU ==
  <<"A", "r", "t", "i", "c", "l", "e", " ", "N", "u", "m", "b", "e", "r", "/", "S", "K", "U">>

CatGTIN == <<"G", "T", "I", "N">>

OtherTarget == <<"S", "h", "a", "d", "e">>

SourceNames == <<SrcColor, SrcSKU, SrcWidget>>

CatalogNames == <<CatColor, CatSKU, CatGTIN>>

IsInjective(s) == \A i, j \in 1..Len(s) : s[i] = s[j] => i = j

\* source field lists: Object.keys of a record, so without repetition
SourceFieldLists ==
  LET names == {SourceNames[i] : i \in 1..MaxSourceFields}
  IN UNION {{s \in [1..n -> names] : IsInjective(s)} : n \in 0..MaxSourceFields}

Catalogs == {SubSeq(CatalogNames, 1, n) : n \in 0..MaxTargetFields}

Requests ==
  {NoRequest} \cup
  {[present |-> TRUE, sourceFields |-> s, targetFields |-> c] :
     s \in SourceFieldLists, c \in Catalogs}

EnvKey == <<"A", "I", "z", "a", "-", "e", "n", "v">>

EnvValues == {NoField, <<" ">>, PlaceholderKey, EnvKey}

\* one mapping entry as the inference service writes it; an absent member
\* is left out of the text
Entry(sf, tf, conf, req, opt) ==
  [sf |-> sf, tf |-> tf, conf |-> conf, req |-> req, opt |-> opt]

Member(key, valueToks) ==
  IF valueToks = <<>> THEN <<>>
  ELSE <<<<StrTok(<<key>>), Tok(":")>> \o valueToks>>

NameToks(name) == IF name = NoField THEN <<>> ELSE <<StrTok(name)>>

FlagToks(f) == IF f = "absent" THEN <<>> ELSE <<Tok(f)>>

\* token sequences joined by sep
RECURSIVE Join(_, _)
Join(parts, sep) ==
  IF parts = <<>> THEN <<>>
  ELSE IF Len(parts) = 1 THEN parts[1]
  ELSE parts[1] \o sep \o Join(Tail(parts), sep)

EntryText(e, sep) ==
  <<Tok("{")>>
  \o Join(Member("sourceField", NameToks(e.sf))
          \o Member("targetField", NameToks(e.tf))
          \o Member("confidence", e.conf)
          \o Member("isRequired", FlagToks(e.req))
          \o Member("isOptional", FlagToks(e.opt)), <<Tok(",")>> \o sep)
  \o <<Tok("}")>>

\* { "mappings": [ ... ] } on one line
ObjectText(entries) ==
  <<Tok("{"), StrTok(MappingsKey), Tok(":"), Tok("[")>>
  \o Join([i \in 1..Len(entries) |-> EntryText(entries[i], <<>>)], <<Tok(",")>>)
  \o <<Tok("]"), Tok("}")>>

\* the same object over several lines
PrettyText(entries) ==
  <<Tok("{"), Tok("nl"), Tok("sp"), StrTok(MappingsKey), Tok(":"), Tok("sp"), Tok("["), Tok("nl")>>
  \o Join([i \in 1..Len(entries) |-> <<Tok("sp")>> \o EntryText(entries[i], <<Tok("nl")>>)],
          <<Tok(","), Tok("nl")>>)
  \o <<Tok("nl"), Tok("sp"), Tok("]"), Tok("nl"), Tok("}")>>

FlagValues == {"true", "false", "absent"}

GoodConf == <<NumTok(9, 10)>>

\* entries for the first source name, every flag combination
ClassificationEntries ==
  {Entry(SrcColor, tf, GoodConf, r, o) :
     tf \in {CatColor, OtherTarget, NoField}, r \in FlagValues, o \in FlagValues}

ConfidenceValues ==
  {<<NumTok(0, 1)>>, <<NumTok(1, 1)>>, <<NumTok(3, 2)>>, <<NumTok(-1, 10)>>,
   <<StrTok(<<"h", "i", "g", "h">>)>>, <<>>}

\* entries that the validation decides
ValidationEntries ==
  {Entry(SrcSKU, CatSKU, c, "absent", "absent") : c \in ConfidenceValues}
  \cup {Entry(sf, CatSKU, GoodConf, "absent", "absent") : sf \in {SrcSKU, SrcGhost, NoField}}

EntryPool == ClassificationEntries \cup ValidationEntries

SecondEntries ==
  {Entry(SrcColor, CatSKU, <<NumTok(4, 5)>>, "true", "false"),
   Entry(SrcSKU, CatSKU, GoodConf, "false", "true"),
   Entry(SrcSKU, OtherTarget, GoodConf, "absent", "absent")}

MappingLists ==
  {<<>>} \cup {<<e>> : e \in EntryPool}
  \cup {<<e, f>> : e \in EntryPool, f \in SecondEntries}

SampleEntries ==
  <<Entry(SrcColor, CatColor, GoodConf, "true", "false"),
    Entry(SrcSKU, CatSKU, GoodConf, "false", "true")>>

Prose == Tok("prose")

\* a text cut off after n tokens
Prefixes(text) == {SubSeq(text, 1, n) : n \in 1..(Len(text) - 1)}

OtherTexts ==
  {<<Tok("{"), StrTok(<<"result">>), Tok(":"), StrTok(<<"none">>), Tok("}")>>,
   <<Tok("{"), StrTok(MappingsKey), Tok(":"), StrTok(<<"none">>), Tok("}")>>,
   <<Tok("{"), StrTok(MappingsKey), Tok("sp"), Tok(":"), Tok("sp")>>
     \o SubSeq(ObjectText(SampleEntries), 4, Len(ObjectText(SampleEntries))),
   <<Tok("{"), StrTok(MappingsKey), Tok(":"), Tok("["), Tok("null"), Tok("]"), Tok("}")>>,
   <<Tok("{"), StrTok(MappingsKey), Tok(":"), Tok("[")>>
     \o EntryText(SampleEntries[1], <<>>)
     \o <<Tok(","), Tok("null"), Tok("]"), Tok("}")>>,
   <<Tok("nl")>> \o ObjectText(SampleEntries) \o <<Tok("nl")>>,
   <<Tok("null")>>,
   <<Prose, Tok("sp"), Prose>>,
   <<Tok("sp")>>,
   <<>>}

DecoratedTexts ==
  LET one == ObjectText(SampleEntries)
      many == PrettyText(SampleEntries)
  IN {many,
      <<Tok("fencejson"), Tok("nl")>> \o many \o <<Tok("nl"), Tok("fence")>>,
      <<Tok("fencejson"), Tok("nl")>> \o many,
      <<Tok("fencejson"), Tok("nl"), Tok("fence")>>,
      <<Tok("fence"), Tok("nl")>> \o one \o <<Tok("nl"), Tok("fence")>>,
      <<Prose, Tok("sp")>> \o one \o <<Tok("sp"), Prose>>,
      <<Prose, Tok("sp"), Tok("fencejson")>> \o one \o <<Tok("fence"), Tok("sp"), Prose>>,
      SubSeq(one, 1, Len(one) - 2) \o <<Tok(",")>>}
     \cup Prefixes(one) \cup Prefixes(many)

\* two entries of two members each
ShortEntries ==
  <<Entry(SrcColor, NoField, GoodConf, "absent", "absent"),
    Entry(SrcSKU, NoField, GoodConf, "absent", "absent")>>

\* what may stand before the object: nothing, an opening code fence, prose
Leads == {<<>>, <<Tok("fencejson"), Tok("nl")>>, <<Prose, Tok("sp")>>}

\* the mappings objects that the truncated responses are cut from
TruncationSources ==
  {[entries |-> SampleEntries, pretty |-> FALSE],
   [entries |-> SampleEntries, pretty |-> TRUE],
   [entries |-> ShortEntries, pretty |-> FALSE]}

FullText(src) ==
  IF src.pretty THEN PrettyText(src.entries) ELSE ObjectText(src.entries)

\* a response cut off after n tokens of the object, or inside the token
\* after them (inside = TRUE)
Truncated(lead, src, n, inside) ==
  lead \o SubSeq(FullText(src), 1, n) \o (IF inside THEN <<Tok("cut")>> ELSE <<>>)

TruncatedTexts ==
  LET short == [entries |-> ShortEntries, pretty |-> FALSE]
  IN {Truncated(lead, short, n, FALSE) :
        lead \in Leads, n \in 1..(Len(FullText(short)) - 1)}
     \cup {Truncated(<<>>, short, n, TRUE) : n \in 1..(Len(FullText(short)) - 1)}

ResponseTexts ==
  {ObjectText(l) : l \in MappingLists} \cup OtherTexts \cup DecoratedTexts
  \cup TruncatedTexts

\* how the single fetch settles
Responses ==
  {[kind |-> k, text |-> <<>>] : k \in {"transport", "status", "notext"}}
  \cup {[kind |-> "text", text |-> t] : t \in ResponseTexts}

\* no call of the fallback engine has been made
EngineIdle == [op |-> "none"]

\* no file has been read
SheetIdle == [op |-> "none"]

\* no FieldMapping component is mounted
NoSession == [op |-> "none"]

\* no pair of concurrent mapFields invocations is followed
PairIdle == [op |-> "none"]

\* no dropped files are followed
UploadIdle == [op |-> "none"]

(***************************************************************************)
(* The state machine: one service, one invocation of mapFields at a time   *)
(***************************************************************************)
Init ==
  /\ apiKey \in {Constructor(env) : env \in EnvValues}
  /\ pc = "idle"
  /\ request = NoRequest
  /\ fetchCount = 0
  /\ response = NoResponse
  /\ path = "none"
  /\ outcome = NoOutcome
  /\ engine = EngineIdle
  /\ sheet = SheetIdle
  /\ ui = NoSession
  /\ pair = PairIdle
  /\ upload = UploadIdle

\* a caller invokes mapFields(req); it runs to its first await or to its end
Call(req) ==
  /\ pc \in {"idle", "done"}
  /\ LET r == mapFieldsEntry(req, apiKey)
     IN /\ pc' = r.pc
        /\ path' = r.path
        /\ fetchCount' = r.fetches
        /\ outcome' = r.outcome
  /\ request' = req
  /\ response' = NoResponse
  /\ UNCHANGED <<apiKey, engine, sheet, ui, pair, upload>>

\* the fetch settles with resp and mapFields runs to its return
Respond(resp) ==
  /\ pc = "awaiting"
  /\ LET r == mapFieldsResume(request, resp, fetchCount)
     IN /\ path' = r.path
        /\ fetchCount' = r.fetches
        /\ outcome' = r.outcome
  /\ pc' = "done"
  /\ response' = resp
  /\ UNCHANGED <<apiKey, request, engine, sheet, ui, pair, upload>>

Next ==
  \/ \E req \in Requests : Call(req)
  \/ \E resp \in Responses : Respond(resp)

Spec == Init /\ [][Next]_vars

(***************************************************************************)
(* The Similarity Fallback Engine on its own: fallbackMapping,             *)
(* findBestFallbackMatch and levenshteinDistance applied to field names    *)
(* and catalogs of the production template                                 *)
(***************************************************************************)
SrcPrice == <<"P", "r", "i", "c", "e">>

SrcItemNumber == <<"I", "t", "e", "m", " ", "N", "u", "m", "b", "e", "r">>

SrcWeightUpper == <<"W", "E", "I", "G", "H", "T">>

CatPrice ==
  <<"I", "n", "i", "t", "i", "a", "l", " ", "S", "u", "g", "g", "e", "s",
    "t", "e", "d", " ", "R", "e", "t", "a", "i", "l", " ", "P", "r", "i",
    "c", "e", " ", "(", "S", "R", "P", ")", " ", "E", "U">>

CatItem == <<"C", "N", " ", "-", " ", "I", "t", "e", "m">>

CatWeight == <<"W", "e", "i", "g", "h", "t">>

EngineSourceNames == {SrcSKU, SrcPrice, SrcWidget, SrcItemNumber, SrcWeightUpper}

EngineCatalogNames == {CatSKU, CatPrice, CatItem, CatWeight}

\* lists without repetition of at most max of the names
ListsOf(names, max) ==
  UNION {{l \in [1..n -> names] : IsInjective(l)} : n \in 0..max}

EngineCatalogs == ListsOf(EngineCatalogNames, MaxTargetFields)

EngineRequests ==
  {[present |-> TRUE, sourceFields |-> l, targetFields |-> c] :
     l \in ListsOf(EngineSourceNames, MaxSourceFields), c \in EngineCatalogs}

InitEngine ==
  /\ apiKey = HardcodedKey
  /\ pc = "idle"
  /\ request = NoRequest
  /\ fetchCount = 0
  /\ response = NoResponse
  /\ path = "none"
  /\ outcome = NoOutcome
  /\ engine = EngineIdle
  /\ sheet = SheetIdle
  /\ ui = NoSession
  /\ pair = PairIdle
  /\ upload = UploadIdle

\* fallbackMapping(req) runs
Fallback(req) ==
  /\ engine = EngineIdle
  /\ engine' = [op |-> "fallback", request |-> req, results |-> fallbackMapping(req)]
  /\ UNCHANGED <<mapperVars, sheet, ui, pair, upload>>

\* findBestFallbackMatch(sourceField, targetFields) runs
Match(sourceField, targetFields) ==
  /\ engine = EngineIdle
  /\ engine' = [op |-> "match", sourceField |-> sourceField,
                targetFields |-> targetFields,
                bestMatch |-> findBestFallbackMatch(sourceField, targetFields)]
  /\ UNCHANGED <<mapperVars, sheet, ui, pair, upload>>

MaxWordLength == 3

\* the strings of at most MaxWordLength of the characters a and b
Words == UNION {[1..n -> {"a", "b"}] : n \in 0..MaxWordLength}

\* levenshteinDistance runs on a pair of strings, in both orders
Distance(a, b) ==
  /\ engine = EngineIdle
  /\ engine' = [op |-> "distance", a |-> a, b |-> b,
                ab |-> levenshteinDistance(a, b),
                ba |-> levenshteinDistance(b, a)]
  /\ UNCHANGED <<mapperVars, sheet, ui, pair, upload>>

\* calculateSimilarity runs on a pair of strings
Similarity(a, b) ==
  /\ engine = EngineIdle
  /\ engine' = [op |-> "similarity", a |-> a, b |-> b,
                similarity |-> calculateSimilarity(a, b)]
  /\ UNCHANGED <<mapperVars, sheet, ui, pair, upload>>

NextEngine ==
  \/ \E req \in EngineRequests : Fallback(req)
  \/ \E sf \in EngineSourceNames, c \in EngineCatalogs : Match(sf, c)
  \/ \E a \in Words, b \in Words : Distance(a, b)
  \/ \E a \in Words, b \in Words : Similarity(a, b)

SpecEngine == InitEngine /\ [][NextEngine]_vars

(***************************************************************************)
(* The tabular normalizer of FileUpload.tsx.  A sheet is a sequence of      *)
(* row objects; a row object is the sequence of its <<key, cell>> entries   *)
(* in insertion order; a key is a string; a cell is [t, s, n]: a string     *)
(* with characters s, or the number n.                                      *)
(***************************************************************************)
StrCell(s) == [t |-> "str", s |-> s, n |-> 0]

\* a number other than 0
NumCell == [t |-> "num", s |-> <<>>, n |-> 7]

\* the number 0
ZeroCell == [t |-> "num", s |-> <<>>, n |-> 0]

EmptyCell == StrCell(<<>>)

\* String(value)
CellString(cell) ==
  IF cell.t = "str" THEN cell.s ELSE IF cell.n = 0 THEN <<"0">> ELSE <<"7">>

\* a cell as a condition: '' and 0 are falsy
CellTruthy(cell) ==
  IF cell.t = "str" THEN cell.s # <<>>
  ELSE IF cell.t = "num" THEN cell.n # 0 ELSE TRUE

\* v !== null && v !== undefined && String(v).trim() !== ''
CellNonBlank(cell) == StrTrim(CellString(cell)) # <<>>

\* value && typeof value === 'string' && value.trim() !== ''
CellIsText(cell) == cell.t = "str" /\ StrTrim(cell.s) # <<>>

LabelColumn ==
  <<"I", "m", "p", "o", "r", "t", "a", "n", "t", " ", "I", "n", "i", "t",
    "i", "a", "l", " ", "D", "a", "t", "a">>

\* Object.keys(row), Object.values(row)
RowKeys(row) == [k \in 1..Len(row) |-> row[k][1]]

RowValues(row) == [k \in 1..Len(row) |-> row[k][2]]

\* row has the own property key
HasKey(obj, key) == \E k \in 1..Len(obj) : obj[k][1] = key

\* row[key] of a row that has the key
RowGet(row, key) == row[CHOOSE k \in 1..Len(row) : row[k][1] = key][2]

\* the values of the 'Important Initial Data' column that are non-blank
\* strings, trimmed: fieldValuePairs
RECURSIVE LabelValues(_)
LabelValues(data) ==
  IF data = <<>> THEN <<>>
  ELSE IF HasKey(Head(data), LabelColumn) /\ CellIsText(RowGet(Head(data), LabelColumn))
       THEN <<StrTrim(RowGet(Head(data), LabelColumn).s)>> \o LabelValues(Tail(data))
       ELSE LabelValues(Tail(data))

\* the field indicators of the description loop
DescriptionIndicators ==
  <<
    <<"N", "u", "m", "b", "e", "r">>,
    <<"G", "T", "I", "N">>,
    <<"P", "r", "o", "d", "u", "c", "t">>,
    <<"W", "e", "i", "g", "h", "t">>,
    <<"D", "e", "s", "c", "r", "i", "p", "t", "i", "o", "n">>,
    <<"P", "o", "r", "t", "a", "l">>,
    <<"P", "r", "i", "c", "e">>,
    <<"C", "a", "t", "e", "g", "o", "r", "y">>,
    <<"B", "r", "a", "n", "d">> >>

\* the field indicators of the record loop
RecordIndicators ==
  DescriptionIndicators \o
  <<
    <<"N", "a", "m", "e">>,
    <<"S", "K", "U">>,
    <<"E", "A", "N">>,
    <<"B", "a", "r", "c", "o", "d", "e">>,
    <<"M", "a", "n", "u", "f", "a", "c", "t", "u", "r", "e", "r">>,
    <<"P", "r", "o", "d", "u", "c", "e", "r">> >>

IncludesAny(value, words) ==
  \E w \in 1..Len(words) : StrIncludes(value, words[w])

SentinelWord == <<"b", "e", "s", "c", "h", "r", "e", "i", "b", "u", "n", "g">>

\* value.toLowerCase().includes('beschreibung')
IsSentinel(value) == StrIncludes(toLowerCase(value), SentinelWord)

\* obj[key] = value on an object kept as its list of <<key, value>> entries
Put(obj, key, value) ==
  IF \E k \in 1..Len(obj) : obj[k][1] = key
  THEN [k \in 1..Len(obj) |-> IF obj[k][1] = key THEN <<key, value>> ELSE obj[k]]
  ELSE Append(obj, <<key, value>>)

\* the first loop of parseTransposedExcelTemplate: fieldDescriptions
RECURSIVE DescriptionLoop(_, _, _, _, _)
DescriptionLoop(pairs, i, currentFieldName, isInDescriptionSection, fieldDescriptions) ==
  IF i > Len(pairs) THEN fieldDescriptions
  ELSE LET value == pairs[i]
           isFieldName == IncludesAny(value, DescriptionIndicators)
       IN IF IsSentinel(value)
          THEN DescriptionLoop(pairs, i + 1, currentFieldName, TRUE, fieldDescriptions)
          ELSE IF isFieldName /\ ~isInDescriptionSection
          THEN DescriptionLoop(pairs, IF i + 1 <= Len(pairs) THEN i + 2 ELSE i + 1,
                               value, isInDescriptionSection, fieldDescriptions)
          ELSE IF isInDescriptionSection /\ currentFieldName # <<>>
          THEN DescriptionLoop(pairs, i + 1, currentFieldName, isInDescriptionSection,
                               Put(fieldDescriptions, currentFieldName, value))
          ELSE DescriptionLoop(pairs, i + 1, currentFieldName, isInDescriptionSection,
                               fieldDescriptions)

\* the second loop: dataRow
RECURSIVE RecordLoop(_, _, _)
RecordLoop(pairs, i, dataRow) ==
  IF i > Len(pairs) THEN dataRow
  ELSE LET value == pairs[i]
       IN IF IsSentinel(value) THEN dataRow
          ELSE IF /\ IncludesAny(value, RecordIndicators)
                  /\ i + 1 <= Len(pairs)
                  /\ ~IncludesAny(pairs[i + 1], RecordIndicators)
                  /\ ~IsSentinel(pairs[i + 1])
          THEN RecordLoop(pairs, i + 2, Put(dataRow, value, pairs[i + 1]))
          ELSE RecordLoop(pairs, i + 1, dataRow)

parseTransposedExcelTemplate(data) ==
  LET fieldValuePairs == LabelValues(data)
      dataRow == RecordLoop(fieldValuePairs, 1, <<>>)
  IN [layout |-> "transposed",
      processedData |-> IF Len(dataRow) > 0 THEN <<dataRow>> ELSE <<>>,
      fieldDescriptions |-> DescriptionLoop(fieldValuePairs, 1, <<>>, FALSE, <<>>)]

\* the words that make a row-2 cell a field name for detectExcelTemplate
TemplateIndicators ==
  <<
    <<"A", "r", "t", "i", "c", "l", "e", " ", "N", "u", "m", "b", "e",
      "r">>,
    <<"G", "T", "I", "N">>,
    <<"P", "o", "r", "t", "a", "l", " ", "N", "a", "m", "e">>,
    <<"P", "r", "o", "d", "u", "c", "t">>,
    <<"W", "e", "i", "g", "h", "t">>,
    <<"D", "e", "s", "c", "r", "i", "p", "t", "i", "o", "n">> >>

\* some key of some row includes 'Important Initial Data'
isTransposedData(data) ==
  \E r \in 1..Len(data) :
    \E k \in 1..Len(data[r]) : StrIncludes(data[r][k][1], LabelColumn)

\* some value of the row is a string that includes 'beschreibung' in lower
\* case
hasDescriptionMarker(row) ==
  \E k \in 1..Len(row) : row[k][2].t = "str" /\ IsSentinel(row[k][2].s)

detectExcelTemplate(data) ==
  IF Len(data) < 3 THEN FALSE
  ELSE
    LET row2Values == SelectSeq(RowValues(data[2]), CellNonBlank)
        hasFieldNamesInRow2 ==
          \E k \in 1..Len(row2Values) :
            /\ row2Values[k].t = "str"
            /\ IncludesAny(row2Values[k].s, TemplateIndicators)
        hasDescriptionRows == Len(data) >= 6 /\ hasDescriptionMarker(data[5])
    IN (hasFieldNamesInRow2 \/ hasDescriptionRows \/ isTransposedData(data))
       /\ Len(data) >= 3

\* the description cells of one row, by column position
RECURSIVE TemplateDescriptionRow(_, _, _, _)
TemplateDescriptionRow(descriptions, colIndex, fieldNames, fieldDescriptions) ==
  IF colIndex > Len(descriptions) THEN fieldDescriptions
  ELSE
    LET desc == descriptions[colIndex]
    IN IF CellIsText(desc) /\ colIndex <= Len(fieldNames)
       THEN LET fieldName == fieldNames[colIndex]
            IN TemplateDescriptionRow(descriptions, colIndex + 1, fieldNames,
                 IF ~HasKey(fieldDescriptions, fieldName)
                 THEN Put(fieldDescriptions, fieldName, StrTrim(desc.s))
                 ELSE Put(fieldDescriptions, fieldName,
                          RowGet(fieldDescriptions, fieldName) \o <<" ">>
                            \o StrTrim(desc.s)))
       ELSE TemplateDescriptionRow(descriptions, colIndex + 1, fieldNames,
                                   fieldDescriptions)

\* fieldNames.forEach of parseExcelTemplate: the record
RECURSIVE TemplateRecord(_, _, _, _)
TemplateRecord(fieldNames, sourceDataValues, index, dataRow) ==
  IF index > Len(fieldNames) THEN dataRow
  ELSE TemplateRecord(fieldNames, sourceDataValues, index + 1,
         IF index <= Len(sourceDataValues) /\ CellNonBlank(sourceDataValues[index])
         THEN Put(dataRow, fieldNames[index], sourceDataValues[index])
         ELSE dataRow)

\* parseExcelTemplate(data): [layout, processedData, fieldDescriptions]
parseExcelTemplate(data) ==
  IF Len(data) < 3
  THEN [layout |-> "short", processedData |-> data, fieldDescriptions |-> <<>>]
  ELSE IF isTransposedData(data) THEN parseTransposedExcelTemplate(data)
  ELSE
    LET names == SelectSeq(RowValues(data[2]), CellIsText)
        fieldNames == [k \in 1..Len(names) |-> names[k].s]
        sourceDataValues == RowValues(data[3])
        descriptionRows ==
          IF Len(data) >= 7 THEN <<data[6], data[7]>> ELSE <<data[6]>>
        afterRow1 ==
          TemplateDescriptionRow(RowValues(descriptionRows[1]), 1, fieldNames, <<>>)
        fieldDescriptions ==
          IF Len(data) >= 6 /\ hasDescriptionMarker(data[5])
          THEN IF Len(descriptionRows) = 2
               THEN TemplateDescriptionRow(RowValues(descriptionRows[2]), 1,
                                           fieldNames, afterRow1)
               ELSE afterRow1
          ELSE <<>>
        dataRow ==
          IF Len(sourceDataValues) > 0
          THEN TemplateRecord(fieldNames, sourceDataValues, 1, <<>>)
          ELSE <<>>
    IN [layout |-> "template",
        processedData |-> IF Len(dataRow) > 0 THEN <<dataRow>> ELSE <<>>,
        fieldDescriptions |-> fieldDescriptions]

EmptyPrefix == <<"_", "_", "E", "M", "P", "T", "Y">>

EmptyInfix == <<"_", "_", "E", "M", "P", "T", "Y", "_", "_">>

EmptyShortPrefix == <<"_", "E", "M", "P", "T", "Y">>

\* key.startsWith(prefix)
startsWith(key, prefix) ==
  Len(key) >= Len(prefix) /\ SubSeq(key, 1, Len(prefix)) = prefix

\* the keys the flat-table rule skips
SkippedKey(key) ==
  \/ key = <<>>
  \/ StrTrim(key) = <<>>
  \/ startsWith(key, EmptyPrefix)
  \/ StrIncludes(key, EmptyInfix)
  \/ startsWith(key, EmptyShortPrefix)

\* one row of the flat-table rule: cleanedRow[key.trim()] = value || ''
RECURSIVE FlatRow(_, _, _)
FlatRow(row, k, cleanedRow) ==
  IF k > Len(row) THEN cleanedRow
  ELSE FlatRow(row, k + 1,
         IF SkippedKey(row[k][1]) THEN cleanedRow
         ELSE Put(cleanedRow, StrTrim(row[k][1]),
                  IF CellTruthy(row[k][2]) THEN row[k][2] ELSE EmptyCell))

\* the flat-table rule: data.map(...).filter(row has a key)
FlatTable(data) ==
  SelectSeq([r \in 1..Len(data) |-> FlatRow(data[r], 1, <<>>)],
            LAMBDA row : Len(row) > 0)

\* no _fieldDescriptions property on the rows
NoStored == <<>>

\* cleanExcelData(data) on rows whose _fieldDescriptions property is stored:
\* [layout, processedData, fieldDescriptions]
cleanExcelData(data, stored) ==
  IF Len(data) = 0
  THEN [layout |-> "none", processedData |-> <<>>, fieldDescriptions |-> <<>>]
  ELSE IF stored # NoStored
  THEN [layout |-> "stored", processedData |-> data, fieldDescriptions |-> stored]
  ELSE IF detectExcelTemplate(data) THEN parseExcelTemplate(data)
  ELSE [layout |-> "flat", processedData |-> FlatTable(data),
        fieldDescriptions |-> <<>>]

\* XLSX.utils.sheet_to_json(worksheet, {defval: '', blankrows: false,
\* raw: false}) on a grid of text cells without blank rows: the first row
\* names the columns (an empty cell gives '__EMPTY', the next '__EMPTY_1')
HeaderKey(header, c) ==
  IF header[c] # <<>> THEN header[c]
  ELSE IF \E b \in 1..(c - 1) : header[b] = <<>>
       THEN EmptyPrefix \o <<"_", "1">>
       ELSE EmptyPrefix

SheetToJson(grid) ==
  IF Len(grid) = 0 THEN <<>>
  ELSE [r \in 1..(Len(grid) - 1) |->
          [c \in 1..Len(grid[1]) |->
             <<HeaderKey(grid[1], c), StrCell(grid[r + 1][c])>>]]

DuplicatesKey == <<"_", "d", "u", "p", "l", "i", "c", "a", "t", "e", "s">>

\* the duplicateTracker object stored under _duplicates
DuplicatesCell == [t |-> "obj", s |-> <<>>, n |-> 0]

\* fieldNamesRow.forEach of the alternative parsing: properData
RECURSIVE ProperLoop(_, _, _, _, _)
ProperLoop(fieldNamesRow, valuesRow, index, properData, hasDuplicates) ==
  IF index > Len(fieldNamesRow)
  THEN IF hasDuplicates THEN Put(properData, DuplicatesKey, DuplicatesCell)
       ELSE properData
  ELSE
    LET fieldName == fieldNamesRow[index]
        cleanFieldName == StrTrim(fieldName)
    IN IF cleanFieldName # <<>> /\ index <= Len(valuesRow)
       THEN IF HasKey(properData, cleanFieldName)
            THEN ProperLoop(fieldNamesRow, valuesRow, index + 1, properData, TRUE)
            ELSE ProperLoop(fieldNamesRow, valuesRow, index + 1,
                            Put(properData, cleanFieldName,
                                StrCell(valuesRow[index])),
                            hasDuplicates)
       ELSE ProperLoop(fieldNamesRow, valuesRow, index + 1, properData,
                       hasDuplicates)

\* fieldNamesRow.forEach of the alternative parsing: fieldDescriptions
RECURSIVE StoredLoop(_, _, _, _, _)
StoredLoop(fieldNamesRow, descRow1, descRow2, index, fieldDescriptions) ==
  IF index > Len(fieldNamesRow) THEN fieldDescriptions
  ELSE
    LET fieldName == fieldNamesRow[index]
        first == IF index <= Len(descRow1) /\ descRow1[index] # <<>>
                 THEN StrTrim(descRow1[index]) ELSE <<>>
        description ==
          IF index <= Len(descRow2) /\ descRow2[index] # <<>>
          THEN (IF first # <<>> THEN first \o <<" ">> ELSE first)
                 \o StrTrim(descRow2[index])
          ELSE first
    IN StoredLoop(fieldNamesRow, descRow1, descRow2, index + 1,
         IF StrTrim(fieldName) # <<>> /\ description # <<>>
         THEN Put(fieldDescriptions, StrTrim(fieldName), description)
         ELSE fieldDescriptions)

\* the Excel branch of processFile on the grid of the first worksheet:
\* [data, result], data the rows of the standard conversion and result what
\* cleanExcelData returns
readExcel(grid) ==
  LET jsonData == SheetToJson(grid)
      rawData == grid
      properData ==
        IF isTransposedData(jsonData) /\ Len(rawData) >= 3
        THEN ProperLoop(rawData[2], rawData[3], 1, <<>>, FALSE)
        ELSE <<>>
      hasMarker ==
        /\ Len(rawData) >= 5
        /\ \E c \in 1..Len(rawData[5]) : IsSentinel(rawData[5][c])
      fieldDescriptions ==
        IF hasMarker /\ Len(rawData) >= 6
        THEN StoredLoop(rawData[2], rawData[6],
                        IF Len(rawData) >= 7 THEN rawData[7] ELSE <<>>, 1, <<>>)
        ELSE <<>>
  IN [data |-> jsonData,
      result |-> IF Len(properData) > 0
                 THEN cleanExcelData(<<properData>>, fieldDescriptions)
                 ELSE cleanExcelData(jsonData, NoStored)]

MaxRows == 4

CellProducer ==
  <<"P", "r", "o", "d", "u", "c", "e", "r", " ", "N", "a", "m", "e">>

CellSerial ==
  <<"W", "E", "T", "A", "8", "6", "0", "1", "0", "4", "3", "4", "2">>

CellSentinel == <<"B", "e", "s", "c", "h", "r", "e", "i", "b", "u", "n", "g">>

CellText ==
  <<"S", "K", "U", " ", "d", "e", "s", "c", "r", "i", "p", "t", "i", "o",
    "n", " ", "t", "e", "x", "t">>

\* what a cell of the column may hold
Cells ==
  {StrCell(CatSKU), StrCell(CellProducer), StrCell(CellSerial),
   StrCell(CellSentinel), StrCell(CellText), StrCell(<<" ">>), NumCell}

\* the sheets with the one column 'Important Initial Data'
LabelSheets ==
  UNION {{[r \in 1..n |-> <<<<LabelColumn, cells[r]>>>>] : cells \in [1..n -> Cells]} :
           n \in 0..MaxRows}

KeySKU == <<"S", "K", "U">>

KeyPaddedName == <<" ", "N", "a", "m", "e", " ">>

KeyBlank == <<" ">>

KeyEmptyFirst == <<"_", "_", "E", "M", "P", "T", "Y">>

KeyEmptyNext == <<"_", "_", "E", "M", "P", "T", "Y", "_", "1">>

KeyEmptyShort == <<"_", "E", "M", "P", "T", "Y">>

KeyEmptyInside ==
  <<"N", "o", "_", "_", "E", "M", "P", "T", "Y", "_", "_", "e">>

CellGTIN == <<"G", "T", "I", "N">>

\* rows of a table with a header line
FlatRowPool ==
  {<<<<KeySKU, StrCell(CellSerial)>>, <<KeyPaddedName, StrCell(CellProducer)>>>>,
   <<<<KeySKU, ZeroCell>>, <<KeyEmptyFirst, StrCell(CellText)>>>>,
   <<<<KeySKU, EmptyCell>>, <<KeyEmptyInside, StrCell(CellText)>>>>,
   <<<<KeyBlank, StrCell(CellText)>>, <<KeyEmptyShort, NumCell>>>>,
   <<<<KeyEmptyFirst, EmptyCell>>, <<KeyEmptyNext, StrCell(CellSerial)>>>>,
   <<<<KeySKU, StrCell(CellGTIN)>>>>,
   <<<<LabelColumn, StrCell(CatSKU)>>, <<KeySKU, StrCell(CellSerial)>>>>}

FlatSheets == UNION {[1..n -> FlatRowPool] : n \in 1..3}

\* a row of the sheet without header line: the columns are named __EMPTY
\* and __EMPTY_1
TemplateRow(c1, c2) == <<<<KeyEmptyFirst, c1>>, <<KeyEmptyNext, c2>>>>

TemplateNames ==
  {TemplateRow(StrCell(CatSKU), StrCell(CellGTIN)),
   TemplateRow(EmptyCell, StrCell(CellGTIN)),
   TemplateRow(StrCell(CellGTIN), EmptyCell)}

TemplateValues ==
  {TemplateRow(StrCell(CellSerial), NumCell),
   TemplateRow(EmptyCell, StrCell(CellSerial))}

TemplateMarkers ==
  {TemplateRow(StrCell(CellSentinel), EmptyCell),
   TemplateRow(StrCell(CellText), EmptyCell)}

TemplateDescriptions ==
  {TemplateRow(StrCell(CellText), StrCell(CellProducer)),
   TemplateRow(EmptyCell, StrCell(CellText))}

\* the label/value/description layout, cut after 3, 5, 6 or 7 rows
TemplateSheets ==
  {SubSeq(<<TemplateRow(StrCell(CellText), EmptyCell), names, values,
            TemplateRow(StrCell(CellText), EmptyCell), marker, d1, d2>>, 1, n) :
     names \in TemplateNames, values \in TemplateValues,
     marker \in TemplateMarkers, d1 \in TemplateDescriptions,
     d2 \in TemplateDescriptions, n \in {3, 5, 6, 7}}

Sheets == LabelSheets \cup FlatSheets \cup TemplateSheets

\* the cells of a worksheet with one column
GridCells == {LabelColumn, CatSKU, CellSerial, CellSentinel, CellText, KeySKU}

ColumnGrids ==
  UNION {{[r \in 1..n |-> <<cells[r]>>] : cells \in [1..n -> GridCells]} :
           n \in 1..3}

\* worksheets with two columns under the title 'Important Initial Data'
TitledGrids ==
  {SubSeq(<<<<LabelColumn, <<>>>>, names, <<CellSerial, CellText>>,
            <<CellText, <<>>>>, marker, d1, d2>>, 1, n) :
     names \in {<<CatSKU, CellGTIN>>, <<CellGTIN, CellGTIN>>},
     marker \in {<<CellSentinel, <<>>>>, <<CellText, <<>>>>},
     d1 \in {<<CellText, CellProducer>>, <<<<>>, CellText>>},
     d2 \in {<<CellText, <<>>>>, <<<<>>, CellProducer>>},
     n \in {3, 5, 6, 7}}

Grids == ColumnGrids \cup TitledGrids

InitSheet ==
  /\ apiKey = HardcodedKey
  /\ pc = "idle"
  /\ request = NoRequest
  /\ fetchCount = 0
  /\ response = NoResponse
  /\ path = "none"
  /\ outcome = NoOutcome
  /\ engine = EngineIdle
  /\ sheet = SheetIdle
  /\ ui = NoSession
  /\ pair = PairIdle
  /\ upload = UploadIdle

\* the rows of a file are handed to cleanExcelData
Clean(data) ==
  /\ sheet = SheetIdle
  /\ sheet' = [op |-> "cleaned", data |-> data,
               result |-> cleanExcelData(data, NoStored)]
  /\ UNCHANGED <<mapperVars, engine, ui, pair, upload>>

\* an Excel file is read
ReadExcel(grid) ==
  /\ sheet = SheetIdle
  /\ sheet' = [op |-> "read", data |-> readExcel(grid).data,
               result |-> readExcel(grid).result]
  /\ UNCHANGED <<mapperVars, engine, ui, pair, upload>>

NextSheet ==
  \/ \E data \in Sheets : Clean(data)
  \/ \E grid \in Grids : ReadExcel(grid)

SpecSheet == InitSheet /\ [][NextSheet]_vars

(***************************************************************************)
(* The FieldMapping component: the mappings it holds, Auto-Map and the     *)
(* manual override.  ui.last records the handler that ran last and the     *)
(* mappings it started from.                                               *)
(***************************************************************************)
\* nothing has been saved: no call of the two persistence services
NoSave == [of |-> <<>>, required |-> {}, optional |-> {}, outcome |-> "none"]

\* the state of the component; saving is the mappings list that a running
\* saveMappings closed over, sent what its two service calls were given,
\* edits the number of edits of the list made by the user, saves the number
\* of clicks on Save
Session(sourceFields, targetFields, mappings, isLoading, error, last) ==
  [op |-> "session", sourceFields |-> sourceFields, targetFields |-> targetFields,
   mappings |-> mappings, isLoading |-> isLoading, error |-> error, last |-> last,
   isSaving |-> FALSE, saving |-> <<>>, sent |-> NoSave, edits |-> 0,
   saves |-> 0]

Last(op, sourceField, targetField, before) ==
  [op |-> op, sourceField |-> sourceField, targetField |-> targetField,
   before |-> before]

\* the request that performAIMapping of the component sends
SessionRequest ==
  [present |-> TRUE,
   sourceFields |-> SubSeq(SourceNames, 1, MaxSourceFields),
   targetFields |-> SubSeq(CatalogNames, 1, MaxTargetFields)]

\* how the fetch of a mapFields call of the session settles
SessionResponses ==
  {[kind |-> "transport", text |-> <<>>]}
  \cup {[kind |-> "text", text |-> t] :
          t \in {ObjectText(SampleEntries),
                 ObjectText(<<Entry(SrcColor, OtherTarget, GoodConf, "absent", "absent"),
                              Entry(SrcColor, CatSKU, <<NumTok(4, 5)>>, "true", "false")>>),
                 ObjectText(<<>>),
                 <<Prose, Tok("sp"), Prose>>}}

\* what the awaited mapFields call settles with
SessionOutcomes ==
  {mapFieldsResume(SessionRequest, resp, 1).outcome : resp \in SessionResponses}
  \cup {mapFieldsEntry(SessionRequest, NoField).outcome}
  \cup {mapFieldsResume([SessionRequest EXCEPT !.targetFields = <<>>],
                         [kind |-> "transport", text |-> <<>>], 1).outcome}

\* what the user may type into the target input of an optional row
TypedTargets == {OtherTarget, CatColor, <<>>}

InitUI ==
  /\ apiKey = HardcodedKey
  /\ pc = "idle"
  /\ request = NoRequest
  /\ fetchCount = 0
  /\ response = NoResponse
  /\ path = "none"
  /\ outcome = NoOutcome
  /\ engine = EngineIdle
  /\ sheet = SheetIdle
  /\ ui = Session(SessionRequest.sourceFields, SessionRequest.targetFields,
                  <<>>, FALSE, "null", Last("mount", <<>>, <<>>, <<>>))
  /\ pair = PairIdle
  /\ upload = UploadIdle

\* the Auto-Map button: performAIMapping of the component up to its await
AutoMap ==
  /\ ~ui.isLoading
  /\ Len(ui.targetFields) # 0
  /\ Len(ui.sourceFields) # 0
  /\ ui' = [ui EXCEPT !.isLoading = TRUE, !.error = "null",
                      !.last = Last("automap", <<>>, <<>>, ui.mappings)]
  /\ UNCHANGED <<mapperVars, engine, sheet, pair, upload>>

\* the awaited mapFields call settles: the rest of performAIMapping
Settle(o) ==
  /\ ui.isLoading
  /\ ui' = IF o.kind = "threw"
           THEN [ui EXCEPT !.isLoading = FALSE,
                           !.error = "Failed to perform AI mapping",
                           !.last = Last("rejected", <<>>, <<>>, ui.mappings)]
           ELSE [ui EXCEPT !.isLoading = FALSE,
                           !.mappings = o.results,
                           !.error = IF Len(o.results) > 0 THEN @
                                     ELSE "AI service returned no mappings",
                           !.last = Last("settle", <<>>, <<>>, ui.mappings)]
  /\ UNCHANGED <<mapperVars, engine, sheet, pair, upload>>

\* setMappings(prev => prev.map(...)) of updateMapping
updateMapping(prev, sourceField, targetField) ==
  [i \in 1..Len(prev) |->
     IF prev[i].sourceField = sourceField
     THEN [prev[i] EXCEPT !.targetField = targetField,
                          !.confidence = Num(1, 1),
                          !.reason = <<"Manual override">>]
     ELSE prev[i]]

\* the targets that the row of a mapping offers: the catalog names in the
\* required table, typed text in the optional table
RowTargets(mapping) ==
  IF mapping.isRequired
  THEN {ui.targetFields[t] : t \in 1..Len(ui.targetFields)}
  ELSE TypedTargets

\* the edits and the saves of one session that the model follows
MaxEdits == 2

MaxSaves == 1

\* the user picks or types a target in the row of mappings[row]
UpdateMapping(row, targetField) ==
  /\ ui.edits < MaxEdits
  /\ row \in 1..Len(ui.mappings)
  /\ targetField \in RowTargets(ui.mappings[row])
  /\ ui' = [ui EXCEPT
              !.mappings = updateMapping(@, ui.mappings[row].sourceField, targetField),
              !.edits = @ + 1,
              !.last = Last("update", ui.mappings[row].sourceField, targetField,
                            ui.mappings)]
  /\ UNCHANGED <<mapperVars, engine, sheet, pair, upload>>

\* a toggle that flips isRequired only
toggleMappingType_RequiredOnly(prevMappings, sourceField) ==
  [i \in 1..Len(prevMappings) |->
     IF prevMappings[i].sourceField = sourceField
     THEN [prevMappings[i] EXCEPT !.isRequired = ~@,
                                  !.reason = Append(@, " (user toggled)")]
     ELSE prevMappings[i]]

\* setMappings(prevMappings => prevMappings.map(...)) of toggleMappingType
toggleMappingType(prevMappings, sourceField) ==
  [i \in 1..Len(prevMappings) |->
     IF prevMappings[i].sourceField = sourceField
     THEN [prevMappings[i] EXCEPT !.isRequired = ~@,
                                  !.isOptional = ~@,
                                  !.reason = Append(@, " (user toggled)")]
     ELSE prevMappings[i]]

\* the toggle button of the row of mappings[row]
ToggleMappingType(row) ==
  /\ ui.edits < MaxEdits
  /\ row \in 1..Len(ui.mappings)
  /\ ui' = [ui EXCEPT
              !.mappings = toggleMappingType(@, ui.mappings[row].sourceField),
              !.edits = @ + 1,
              !.last = Last("toggle", ui.mappings[row].sourceField, <<>>, <<>>)]
  /\ UNCHANGED <<mapperVars, engine, sheet, pair, upload>>

\* setMappings(prevMappings => prevMappings.filter(...)) of removeMapping
removeMapping(prevMappings, sourceField) ==
  SelectSeq(prevMappings, LAMBDA mapping : mapping.sourceField # sourceField)

\* the remove button of the row of mappings[row]
RemoveMapping(row) ==
  /\ ui.edits < MaxEdits
  /\ row \in 1..Len(ui.mappings)
  /\ ui' = [ui EXCEPT
              !.mappings = removeMapping(@, ui.mappings[row].sourceField),
              !.edits = @ + 1,
              !.last = Last("remove", ui.mappings[row].sourceField, <<>>, <<>>)]
  /\ UNCHANGED <<mapperVars, engine, sheet, pair, upload>>

\* the Save button (shown when there are mappings): saveMappings up to its
\* first await, with the mappings of the render it was created in
SaveMappings ==
  /\ ui.saves < MaxSaves
  /\ ~ui.isSaving
  /\ Len(ui.mappings) > 0
  /\ ui' = [ui EXCEPT !.isSaving = TRUE, !.error = "null",
                      !.saving = ui.mappings,
                      !.saves = @ + 1,
                      !.last = Last("save", <<>>, <<>>, <<>>)]
  /\ UNCHANGED <<mapperVars, engine, sheet, pair, upload>>

\* mappings.filter(m => m.isRequired), mappings.filter(m => m.isOptional),
\* as the positions of the entries in the list
requiredMappings(mappings) == {i \in 1..Len(mappings) : mappings[i].isRequired}

optionalMappings(mappings) == {i \in 1..Len(mappings) : mappings[i].isOptional}

\* how the calls of the persistence services end
SaveOutcomes == {"saved", "createFieldMappings rejected",
                 "createOptionalFields rejected"}

\* the rest of saveMappings: the required entries go to createFieldMappings,
\* then the optional entries to createOptionalFields; a rejected call ends
\* the try block
SettleSave(o) ==
  /\ ui.isSaving
  /\ o = "createFieldMappings rejected" => requiredMappings(ui.saving) # {}
  /\ o = "createOptionalFields rejected" => optionalMappings(ui.saving) # {}
  /\ ui' = [ui EXCEPT
              !.isSaving = FALSE,
              !.saving = <<>>,
              !.error = IF o = "saved" THEN @ ELSE "Failed to save mappings",
              !.sent = [of |-> ui.saving,
                        required |-> requiredMappings(ui.saving),
                        optional |-> IF o = "createFieldMappings rejected" THEN {}
                                     ELSE optionalMappings(ui.saving),
                        outcome |-> o],
              !.last = Last("saved", <<>>, <<>>, <<>>)]
  /\ UNCHANGED <<mapperVars, engine, sheet, pair, upload>>

NextUI ==
  \/ AutoMap
  \/ \E o \in SessionOutcomes : Settle(o)
  \/ \E row \in 1..Len(ui.mappings) :
       \E t \in RowTargets(ui.mappings[row]) : UpdateMapping(row, t)
  \/ \E row \in 1..Len(ui.mappings) : ToggleMappingType(row)
  \/ \E row \in 1..Len(ui.mappings) : RemoveMapping(row)
  \/ SaveMappings
  \/ \E o \in SaveOutcomes : SettleSave(o)

SpecUI == InitUI /\ [][NextUI]_vars

(***************************************************************************)
(* Two invocations of mapFields that run concurrently on the singleton     *)
(* service.  The instance holds one field, apiKey, written by the          *)
(* constructor only; request, the prompts, the response and the results    *)
(* are parameters and locals of each invocation, and every caller builds   *)
(* a request object of its own.  An invocation runs without interruption   *)
(* from its call to its await of the fetch and from the settling of the    *)
(* fetch to its return.                                                    *)
(***************************************************************************)
Invocations == {1, 2}

NoCall ==
  [pc |-> "idle", request |-> NoRequest, fetches |-> 0, response |-> NoResponse,
   path |-> "none", outcome |-> NoOutcome]

\* the requests and the fetch results of the two invocations
PairRequests ==
  {SessionRequest,
   [SessionRequest EXCEPT !.targetFields = <<>>],
   [SessionRequest EXCEPT !.sourceFields = <<>>],
   NoRequest}

PairResponses == SessionResponses

\* mapFields from the settling of its one fetch to its return, tabulated
\* over the requests and the fetch results of the pair
PairResume ==
  [req \in PairRequests |->
     [resp \in PairResponses |-> mapFieldsResume(req, resp, 1)]]

\* a request kept in a field of the instance: the last caller's
ClosureRequest_LastCaller(calls, i) ==
  IF calls[3 - i].pc # "idle" THEN calls[3 - i].request ELSE calls[i].request

\* the request that invocation i reads after its await: its own parameter
ClosureRequest(calls, i) == calls[i].request

InitPair ==
  /\ apiKey \in {Constructor(env) : env \in EnvValues}
  /\ pc = "idle"
  /\ request = NoRequest
  /\ fetchCount = 0
  /\ response = NoResponse
  /\ path = "none"
  /\ outcome = NoOutcome
  /\ engine = EngineIdle
  /\ sheet = SheetIdle
  /\ ui = NoSession
  /\ pair = [op |-> "pair", calls |-> [i \in Invocations |-> NoCall],
             trace |-> <<>>]
  /\ upload = UploadIdle

\* invocation i is called with req and runs to its first await or to its end
PairCall(i, req) ==
  /\ pair.calls[i].pc = "idle"
  /\ LET r == mapFieldsEntry(req, apiKey)
     IN pair' = [pair EXCEPT
                   !.calls[i] = [pc |-> r.pc, request |-> req,
                                 fetches |-> r.fetches, response |-> NoResponse,
                                 path |-> r.path, outcome |-> r.outcome],
                   !.trace = Append(@, <<"call", i>>)]
  /\ UNCHANGED <<mapperVars, engine, sheet, ui, upload>>

\* the fetch of invocation i settles with resp and the invocation runs to
\* its return
PairRespond(i, resp) ==
  /\ pair.calls[i].pc = "awaiting"
  /\ LET r == PairResume[ClosureRequest(pair.calls, i)][resp]
     IN pair' = [pair EXCEPT
                   !.calls[i].pc = "done",
                   !.calls[i].fetches = r.fetches,
                   !.calls[i].response = resp,
                   !.calls[i].path = r.path,
                   !.calls[i].outcome = r.outcome,
                   !.trace = Append(@, <<"respond", i>>)]
  /\ UNCHANGED <<mapperVars, engine, sheet, ui, upload>>

NextPair ==
  \/ \E i \in Invocations, req \in PairRequests : PairCall(i, req)
  \/ \E i \in Invocations, resp \in PairResponses : PairRespond(i, resp)

SpecPair == InitPair /\ [][NextPair]_vars

(***************************************************************************)
(* The upload handler of FileUpload.tsx: onDrop with saveToSupabase.  A     *)
(* drop hands over a batch of files, each accepted or rejected by the       *)
(* dropzone; onDrop walks the accepted files one after the other, and a     *)
(* second drop may start while the first is still running.  files is the    *)
(* list of all dropped files: status "none" is an accepted file that is     *)
(* not yet in uploadedFiles.  The persistence services are outside the      *)
(* repository: each call of one either succeeds or fails.                   *)
(***************************************************************************)
MaxDrops == 2

MaxFiles == 2

\* the batches a drop may hand over
Batches == UNION {[1..n -> {"accepted", "rejected"}] : n \in 1..MaxFiles}

\* a dropped file: its entry of uploadedFiles (status "none": not yet
\* added; removed: taken out of the list by removeFile, status being the
\* one the entry had at that moment), the outcome of
\* processFile, the failed persistence step and the number of calls of
\* onFileProcessed for it
FileEntry(kind) ==
  [accepted |-> kind = "accepted",
   status |-> IF kind = "accepted" THEN "none" ELSE "error",
   progress |-> 0, projectId |-> "none", removed |-> FALSE,
   parsed |-> "pending", failedStep |-> "none", calls |-> 0]

\* setUploadedFiles(prev => prev.map(f => f.file === file ? {...f, ...} : f)):
\* the entry of the file is replaced if the list still holds one
MapStatus(u, f, status) ==
  IF u.files[f].removed THEN u ELSE [u EXCEPT !.files[f].status = status]

MapProgress(u, f, progress) ==
  IF u.files[f].removed THEN u ELSE [u EXCEPT !.files[f].progress = progress]

MapProjectId(u, f, projectId) ==
  IF u.files[f].removed THEN u ELSE [u EXCEPT !.files[f].projectId = projectId]

\* an onDrop activation: the accepted files still to come, the file at hand,
\* the place it waits at and the counter of the progress loop
NoDrop == [queue |-> <<>>, cur |-> 0, pc |-> "done", i |-> 0]

\* the for loop takes its next file: setUploadedFiles(prev => [...prev,
\* {file, status: 'uploading', progress: 0}]) and the first timer
NextFile(u, d, queue) ==
  IF queue = <<>>
  THEN [u EXCEPT !.drops[d] = NoDrop]
  ELSE [u EXCEPT !.drops[d] = [queue |-> Tail(queue), cur |-> Head(queue),
                               pc |-> "timer", i |-> 0],
                 !.files[Head(queue)].status = "uploading",
                 !.files[Head(queue)].progress = 0]

\* what the catch of saveToSupabase returns: `local-${Date.now()}`
CatchProjectId == "local"

\* the end of the try block of onDrop for the file at hand, projectId being
\* what saveToSupabase returned, and the next round of the loop
Finish(u, d, projectId, failedStep) ==
  LET f == u.drops[d].cur
      done ==
        IF projectId # "none"
        THEN [MapProjectId(MapStatus(u, f, "completed"), f, projectId)
                EXCEPT !.files[f].failedStep = failedStep,
                       !.files[f].calls = @ + 1]
        ELSE [MapStatus(u, f, "error") EXCEPT !.files[f].failedStep = failedStep]
  IN NextFile(done, d, u.drops[d].queue)

\* the awaited calls of saveToSupabase, in their order
PersistSteps ==
  <<"createProject", "uploadFile", "createProductData", "updateProjectStatus">>

InitUpload ==
  /\ apiKey = HardcodedKey
  /\ pc = "idle"
  /\ request = NoRequest
  /\ fetchCount = 0
  /\ response = NoResponse
  /\ path = "none"
  /\ outcome = NoOutcome
  /\ engine = EngineIdle
  /\ sheet = SheetIdle
  /\ ui = NoSession
  /\ pair = PairIdle
  /\ \E configured \in BOOLEAN :
       upload = [op |-> "upload", configured |-> configured, files |-> <<>>,
                 drops |-> <<>>]

\* the user drops a batch: onDrop up to its first await
Drop(batch) ==
  /\ Len(upload.drops) < MaxDrops
  /\ LET first == Len(upload.files)
         accepted == SelectSeq([k \in 1..Len(batch) |-> first + k],
                               LAMBDA f : batch[f - first] = "accepted")
         listed == [upload EXCEPT
                      !.files = @ \o [k \in 1..Len(batch) |-> FileEntry(batch[k])],
                      !.drops = Append(@, NoDrop)]
     IN upload' = NextFile(listed, Len(listed.drops), accepted)
  /\ UNCHANGED <<mapperVars, engine, sheet, ui, pair>>

\* a timer of the progress loop fires; after the last one the status
\* becomes 'processing' and processFile starts to read the file
Timer(d) ==
  /\ d \in 1..Len(upload.drops)
  /\ upload.drops[d].pc = "timer"
  /\ LET f == upload.drops[d].cur
         i == upload.drops[d].i
     IN upload' =
          IF i + 10 <= 100
          THEN [MapProgress(upload, f, i) EXCEPT !.drops[d].i = i + 10]
          ELSE [MapStatus(MapProgress(upload, f, i), f, "processing")
                  EXCEPT !.drops[d].pc = "processFile"]
  /\ UNCHANGED <<mapperVars, engine, sheet, ui, pair>>

\* the promise of processFile settles: the reader fails, the parsing
\* throws, or the rows are there and saveToSupabase starts
ProcessFile(d, o) ==
  /\ d \in 1..Len(upload.drops)
  /\ upload.drops[d].pc = "processFile"
  /\ o \in {"parsed", "read failed", "parse failed"}
  /\ LET f == upload.drops[d].cur
     IN upload' =
          IF o # "parsed"
          THEN NextFile([MapStatus(upload, f, "error") EXCEPT !.files[f].parsed = o],
                        d, upload.drops[d].queue)
          ELSE IF ~upload.configured
          THEN Finish([upload EXCEPT !.files[f].parsed = o], d, "local",
                      "not configured")
          ELSE [upload EXCEPT !.files[f].parsed = o,
                              !.drops[d].pc = "persist", !.drops[d].i = 1]
  /\ UNCHANGED <<mapperVars, engine, sheet, ui, pair>>

\* how an awaited call of saveToSupabase settles: "failed" is a rejection,
\* no project or no saved rows; "no path" an upload that returns null
PersistOutcomes == {"ok", "failed", "no path"}

\* an awaited call of saveToSupabase settles; a failed call ends in the
\* catch, an upload without a path is only logged
Persist(d, o) ==
  /\ d \in 1..Len(upload.drops)
  /\ upload.drops[d].pc = "persist"
  /\ o = "no path" => PersistSteps[upload.drops[d].i] = "uploadFile"
  /\ LET step == PersistSteps[upload.drops[d].i]
     IN upload' =
          IF o = "failed"
          THEN Finish(upload, d, CatchProjectId, step)
          ELSE IF upload.drops[d].i = Len(PersistSteps)
          THEN Finish(upload, d, "project", "none")
          ELSE [upload EXCEPT !.drops[d].i = @ + 1]
  /\ UNCHANGED <<mapperVars, engine, sheet, ui, pair>>

\* the number of entries the user removes in a run
MaxRemovals == 1

\* the remove button of an entry of the list, shown at every status
RemoveFile(f) ==
  /\ upload.op = "upload"
  /\ f \in 1..Len(upload.files)
  /\ Cardinality({g \in 1..Len(upload.files) : upload.files[g].removed}) < MaxRemovals
  /\ upload.files[f].status # "none"
  /\ ~upload.files[f].removed
  /\ upload' = [upload EXCEPT !.files[f].removed = TRUE,
                              !.files[f].progress = 0]
  /\ UNCHANGED <<mapperVars, engine, sheet, ui, pair>>

\* the steps of the activation d of onDrop
DropSteps(d) ==
  \/ Timer(d)
  \/ \E o \in {"parsed", "read failed", "parse failed"} : ProcessFile(d, o)
  \/ \E o \in PersistOutcomes : Persist(d, o)

NextUpload ==
  \/ \E batch \in Batches : Drop(batch)
  \/ \E d \in 1..MaxDrops : Timer(d)
  \/ \E d \in 1..MaxDrops, o \in {"parsed", "read failed", "parse failed"} :
       ProcessFile(d, o)
  \/ \E d \in 1..MaxDrops, o \in PersistOutcomes : Persist(d, o)
  \/ \E f \in 1..(MaxDrops * MaxFiles) : RemoveFile(f)

SpecUpload == InitUpload /\ [][NextUpload]_vars

\* the event loop runs every timer that is due and every settled promise:
\* no activation of onDrop waits forever
SpecUploadFair ==
  SpecUpload /\ \A d \in 1..MaxDrops : WF_vars(DropSteps(d))

(***************************************************************************)
(* Properties                                                              *)
(***************************************************************************)
Output == outcome.results

OutputIdx == 1..Len(Output)

Requested == {request.sourceFields[i] : i \in 1..Len(request.sourceFields)}

Catalog == {request.targetFields[i] : i \in 1..Len(request.targetFields)}

\* the parsed inference result of the settled fetch, [ok, v]
AiResult ==
  IF response.kind = "text" /\ response.text # <<>>
  THEN parseResponseText(response.text)
  ELSE [ok |-> FALSE, v |-> JUndefined]

\* the entries of its mappings array
RawMappings ==
  IF AiResult.ok /\ Get(AiResult.v, MappingsKey).t = "arr"
  THEN Get(AiResult.v, MappingsKey).items
  ELSE <<>>

RawSet == {RawMappings[i] : i \in 1..Len(RawMappings)}

\* the fetch failed or its text could not be repaired
ResponseFailed ==
  \/ response.kind \in {"transport", "status", "notext"}
  \/ response.kind = "text" /\ ~AiResult.ok

\* the invocation gets as far as the inference call
ReachesInference ==
  request.present /\ Len(request.sourceFields) > 0 /\ ~KeyUnusable(apiKey)

InUnit(c) == c.t = "num" /\ c.d > 0 /\ 0 <= c.n /\ c.n <= c.d

\* C1 (as claimed): on the inference and the fallback path the output holds
\* exactly one entry per requested source field, and every other entry is a
\* synthetic "[MISSING] <target>" entry.
C1_OneEntryPerSourceField ==
  (pc = "done" /\ path \in {"inference", "fallback"}) =>
    /\ \A k \in 1..Len(request.sourceFields) :
         Cardinality({i \in OutputIdx :
                        Output[i].sourceField = request.sourceFields[k]}) = 1
    /\ \A i \in OutputIdx :
         \/ Output[i].sourceField \in Requested
         \/ StartsWithMissing(Output[i].sourceField)

\* C2: every returned entry has exactly one of isRequired / isOptional true.
C2_ExactlyOneFlag ==
  (pc = "done" /\ outcome.kind = "returned") =>
    \A i \in OutputIdx : Output[i].isRequired # Output[i].isOptional

\* an accepted inference entry carried both flags true, another both false
C2_Witness ==
  /\ pc = "done" /\ path = "inference"
  /\ \E m \in RawSet :
       /\ ValidMapping(m, request.sourceFields)
       /\ Get(m, <<"isRequired">>).t = "true"
       /\ Get(m, <<"isOptional">>).t = "true"
       /\ \E i \in OutputIdx : Output[i].sourceField = Get(m, SourceFieldKey).s

\* the output before the post-processing pass of parseAIResponse
Uncorrected ==
  IF path = "inference"
  THEN beforePostProcess(AiResult.v, request.sourceFields, request.targetFields).results
  ELSE <<>>

\* C3: with a non-empty catalog, every returned entry whose targetField is a
\* catalog name is required and not optional, whatever the inference entry
\* said; an entry the post-processing pass corrected has the note appended
\* to its reason.
C3_CatalogTargetRequired ==
  (pc = "done" /\ outcome.kind = "returned" /\ Len(request.targetFields) > 0) =>
    /\ \A i \in OutputIdx :
         Output[i].targetField \in Catalog =>
           Output[i].isRequired /\ ~Output[i].isOptional
    /\ LET before == Uncorrected
       IN \A i \in OutputIdx :
            (/\ i <= Len(before)
             /\ before[i].targetField \in Catalog
             /\ ~before[i].isRequired) =>
              Output[i].reason = Append(before[i].reason, CorrectionNote)

\* an inference entry said isOptional = true for a catalog target and came
\* out required with the note
C3_Witness ==
  /\ pc = "done" /\ path = "inference"
  /\ \E m \in RawSet :
       /\ ValidMapping(m, request.sourceFields)
       /\ Get(m, <<"isOptional">>).t = "true"
       /\ Get(m, <<"isRequired">>).t = "false"
       /\ Get(m, <<"targetField">>).s \in Catalog
       /\ \E i \in OutputIdx :
            /\ Output[i].sourceField = Get(m, SourceFieldKey).s
            /\ Output[i].targetField = Get(m, <<"targetField">>).s
            /\ Output[i].isRequired
            /\ Output[i].reason[Len(Output[i].reason)] = CorrectionNote

\* C4 (as claimed): with an empty catalog and the inference unavailable,
\* mapFields returns one optional entry per source field, target = source,
\* confidence 0.5.
C4_EmptyCatalogOptional ==
  (pc = "done" /\ path = "fallback" /\ Len(request.targetFields) = 0) =>
    /\ outcome.kind = "returned"
    /\ Len(Output) = Len(request.sourceFields)
    /\ \A i \in OutputIdx :
         /\ Output[i].sourceField = request.sourceFields[i]
         /\ Output[i].targetField = request.sourceFields[i]
         /\ Output[i].isOptional /\ ~Output[i].isRequired
         /\ NumEq(Output[i].confidence, Num(1, 2))

\* C5 (as claimed): an empty or null sourceFields list makes mapFields raise,
\* without an inference call and without the fallback.
C5_EmptySourceFailsFast ==
  (pc = "done" /\ (~request.present \/ Len(request.sourceFields) = 0)) =>
    /\ outcome.kind = "threw"
    /\ fetchCount = 0
    /\ path \notin {"inference", "fallback"}

\* C6 (as claimed): for a non-empty sourceFields list mapFields never raises;
\* without a usable credential or with a failed response it returns the
\* fallback's result.
C6_NeverRaises ==
  (pc = "done" /\ request.present /\ Len(request.sourceFields) > 0) =>
    /\ outcome.kind = "returned"
    /\ (KeyUnusable(apiKey) \/ ResponseFailed) => Output = fallbackMapping(request)

\* C7 (as claimed): every invocation issues exactly one inference request,
\* and a failed response is followed by the fallback, not by a retry.
C7_ExactlyOneRequest ==
  pc = "done" =>
    /\ fetchCount = 1
    /\ ResponseFailed => path = "fallback" /\ Output = fallbackMapping(request)

\* C7 (amended): an invocation issues at most one inference request: exactly
\* one when the request is present, its sourceFields non-empty and the
\* credential usable, none otherwise; after a failed or unparsable response
\* no further request is issued and the fallback's result is returned.
C7_AtMostOneRequest ==
  /\ fetchCount <= 1
  /\ pc = "awaiting" => fetchCount = 1
  /\ pc = "done" =>
       /\ fetchCount = 1 <=> ReachesInference
       /\ ResponseFailed =>
            /\ path = "fallback"
            /\ outcome = Returned(fallbackMapping(request))

\* a failed response was answered by a non-empty fallback result
C7_Witness ==
  /\ pc = "done" /\ ResponseFailed /\ fetchCount = 1
  /\ path = "fallback" /\ Len(Output) > 0

\* C8: every returned entry has a numeric confidence in [0,1]; an inference
\* entry with an unrequested sourceField or a confidence that is no number
\* in [0,1] does not reach the output; entries made by the completeness,
\* coverage and fallback steps carry 0.5, 0.0 or a similarity floored at 0.2.
C8_ConfidenceInRange ==
  (pc = "done" /\ outcome.kind = "returned") =>
    LET raw == RawMappings
        accepted == {k \in 1..Len(raw) : ValidMapping(raw[k], request.sourceFields)}
    IN
    /\ \A i \in OutputIdx :
         /\ InUnit(Output[i].confidence)
         /\ \/ Output[i].sourceField \in Requested
            \/ StartsWithMissing(Output[i].sourceField)
    /\ path = "inference" =>
         /\ \A i \in OutputIdx :
              \/ \E k \in accepted :
                   /\ Get(raw[k], SourceFieldKey).s = Output[i].sourceField
                   /\ Get(raw[k], <<"confidence">>).n = Output[i].confidence.n
                   /\ Get(raw[k], <<"confidence">>).d = Output[i].confidence.d
              \/ /\ Output[i].sourceField \in Requested
                 /\ Output[i].confidence = Num(1, 2)
              \/ /\ StartsWithMissing(Output[i].sourceField)
                 /\ Output[i].confidence = Num(0, 1)
         /\ Len(Output) >= Cardinality(accepted)
         /\ Len(Output) <=
              Cardinality(accepted)
              + Len(request.sourceFields) + Len(request.targetFields)
    /\ path = "fallback" =>
         \A i \in OutputIdx :
           \/ NumLeq(Num(1, 5), Output[i].confidence)
           \/ Output[i].confidence = Num(1, 2)

\* the response held an entry for a requested field with confidence 1.5
C8_Witness ==
  /\ pc = "done" /\ path = "inference" /\ Len(Output) > 0
  /\ \E m \in RawSet :
       /\ NamesInclude(request.sourceFields, Get(m, SourceFieldKey))
       /\ Get(m, <<"confidence">>).t = "num"
       /\ NumLess(Num(1, 1), Get(m, <<"confidence">>))

WellFormedObjectText ==
  /\ response.kind = "text"
  /\ JSONparse(response.text).ok
  /\ JSONparse(response.text).v.t = "obj"

\* C10 (as claimed): a well-formed JSON object text comes out of the repair
\* pipeline as it comes out of JSON.parse.
C10_RepairKeepsValidJson ==
  WellFormedObjectText => parseResponseText(response.text) = JSONparse(response.text)

\* C10 (amended): a well-formed JSON object text without code-block markers
\* that contains the quoted word "mappings" comes out of the repair pipeline
\* as it comes out of JSON.parse; one that does not contain it comes out as
\* the object {"mappings":[]}.
C10_RepairKeepsMappingsJson ==
  WellFormedObjectText =>
    IF IncludesMappings(response.text)
    THEN parseResponseText(response.text) = JSONparse(response.text)
    ELSE parseResponseText(response.text) =
           [ok |-> TRUE, v |-> JObj(<<MappingsKey>>, <<JArr(<<>>)>>)]

\* a well-formed text with entries and white space went through the pipeline
C10_Witness ==
  /\ pc = "done" /\ WellFormedObjectText /\ IncludesMappings(response.text)
  /\ HasTok(response.text, "nl")
  /\ Len(RawMappings) > 1

\* index of the closing brace of the i-th entry in the full text
EntryEnd(src, i) ==
  IF src.pretty
  THEN Len(PrettyText(SubSeq(src.entries, 1, i))) - 5
  ELSE Len(ObjectText(SubSeq(src.entries, 1, i))) - 2

\* the entries that are complete within the first n tokens
CompleteBefore(src, n) ==
  Cardinality({i \in 1..Len(src.entries) : EntryEnd(src, i) <= n})

\* the JSON value of one entry
EntryValue(e) == JSONparse(EntryText(e, <<>>)).v

\* the repair pipeline recovers exactly the first k entries of src
RecoversExactly(src, k) ==
  LET r == AiResult
  IN IF k = 0
     THEN ~r.ok \/ Get(r.v, MappingsKey).items = <<>>
     ELSE /\ r.ok
          /\ Get(r.v, MappingsKey).t = "arr"
          /\ Get(r.v, MappingsKey).items = [i \in 1..k |-> EntryValue(src.entries[i])]

\* C11 (as claimed): a mappings object cut off at any point, with or without
\* a leading code fence or leading prose, comes out of the repair pipeline
\* with every entry that was complete before the cut and no other entry.
C11_TruncationRecovers ==
  response.kind = "text" =>
    \A src \in TruncationSources, lead \in Leads, inside \in BOOLEAN :
      \A n \in 1..(Len(FullText(src)) - 1) :
        response.text = Truncated(lead, src, n, inside) =>
          RecoversExactly(src, CompleteBefore(src, n))

\* the rules that apply to a source name, as indices of the rule table
RulesHit(sourceField, targetFields) ==
  {r \in 1..Len(mappingRules) : RuleHits(r, toLowerCase(sourceField), targetFields)}

\* the target of the first rule that applies
FirstRuleTarget(sourceField, targetFields) ==
  LET hits == RulesHit(sourceField, targetFields)
  IN mappingRules[CHOOSE r \in hits : \A q \in hits : r <= q].target

\* the similarity that the selection step computes for one catalog name
SelectionSimilarity(sourceField, targetName) ==
  calculateSimilarity(toLowerCase(sourceField), toLowerCase(targetName))

\* no catalog name reaches the confidence floor of 0.2
NoStrongSimilarity(sourceField, targetFields) ==
  \A k \in 1..Len(targetFields) :
    NumLess(SelectionSimilarity(sourceField, targetFields[k]), Num(1, 5))

\* C12 (as claimed): in the fallback with a non-empty catalog, a source field
\* hit by a rule-table pattern is returned required with that rule's target,
\* and a source field that no rule hits and that has no strong similarity to
\* any catalog name is returned optional with targetField = sourceField.
C12_WeakMatchOptional ==
  (engine.op = "fallback" /\ Len(engine.request.targetFields) > 0) =>
    LET sourceFields == engine.request.sourceFields
        targetFields == engine.request.targetFields
        results == engine.results
    IN /\ Len(results) = Len(sourceFields)
       /\ \A i \in 1..Len(sourceFields) :
            /\ results[i].sourceField = sourceFields[i]
            /\ RulesHit(sourceFields[i], targetFields) # {} =>
                 /\ results[i].isRequired /\ ~results[i].isOptional
                 /\ results[i].targetField = FirstRuleTarget(sourceFields[i], targetFields)
            /\ (/\ RulesHit(sourceFields[i], targetFields) = {}
                /\ NoStrongSimilarity(sourceFields[i], targetFields)) =>
                 /\ results[i].isOptional /\ ~results[i].isRequired
                 /\ results[i].targetField = sourceFields[i]

\* the position of the first sentinel among the tokens, Len + 1 without one
FirstSentinel(toks) ==
  IF \E i \in 1..Len(toks) : IsSentinel(toks[i])
  THEN CHOOSE i \in 1..Len(toks) :
         IsSentinel(toks[i]) /\ \A h \in 1..(i - 1) : ~IsSentinel(toks[h])
  ELSE Len(toks) + 1

\* the positions before the first sentinel of a recognized field name
\* followed by a token that is neither a recognized field name nor the
\* sentinel
PairedAt(toks) ==
  {i \in 1..(FirstSentinel(toks) - 1) :
     /\ IncludesAny(toks[i], RecordIndicators)
     /\ i + 1 <= Len(toks)
     /\ ~IncludesAny(toks[i + 1], RecordIndicators)
     /\ ~IsSentinel(toks[i + 1])}

\* the record maps exactly the paired field names, each to the token after
\* its last paired occurrence
RecordIsPairs(dataRow, toks) ==
  /\ {dataRow[k][1] : k \in 1..Len(dataRow)} = {toks[i] : i \in PairedAt(toks)}
  /\ \A k \in 1..Len(dataRow) :
       \E i \in PairedAt(toks) :
         /\ toks[i] = dataRow[k][1]
         /\ toks[i + 1] = dataRow[k][2]
         /\ \A h \in PairedAt(toks) : toks[h] = toks[i] => h <= i

\* C13: on a sheet of at least three rows holding the one column 'Important
\* Initial Data', the normalizer yields one record mapping each recognized
\* field name before the first sentinel to the token following it when that
\* token is neither a recognized field name nor the sentinel, and when text
\* follows the sentinel the field paired last before it has a description
\* taken from that text
C13_TransposedPairs ==
  (sheet.op = "cleaned" /\ Len(sheet.data) >= 3) =>
    LET toks == LabelValues(sheet.data)
        s == FirstSentinel(toks)
        paired == PairedAt(toks)
        res == sheet.result
    IN /\ paired # {} =>
            /\ Len(res.processedData) = 1
            /\ RecordIsPairs(res.processedData[1], toks)
       /\ (paired # {} /\ s + 1 <= Len(toks)) =>
            LET last == CHOOSE i \in paired : \A h \in paired : h <= i
            IN \E k \in 1..Len(res.fieldDescriptions) :
                 /\ res.fieldDescriptions[k][1] = toks[last]
                 /\ \E j \in (s + 1)..Len(toks) :
                      res.fieldDescriptions[k][2] = toks[j]

\* the entry that the override makes of an entry
Overridden(mapping, targetField) ==
  [mapping EXCEPT !.targetField = targetField, !.confidence = Num(1, 1),
                  !.reason = <<"Manual override">>]

\* C14: updateMapping(sourceField, newTarget) sets targetField, confidence
\* 1.0 and reason 'Manual override' on one entry, the entry of that
\* sourceField, and leaves unchanged every other entry, the length and the
\* order of the list, and the entry's sourceField, isRequired and isOptional
C14_ManualOverride ==
  (ui.op = "session" /\ ui.last.op = "update") =>
    LET before == ui.last.before
        after == ui.mappings
    IN /\ Len(after) = Len(before)
       /\ \E i \in 1..Len(before) :
            /\ before[i].sourceField = ui.last.sourceField
            /\ after[i] = Overridden(before[i], ui.last.targetField)
            /\ after[i].sourceField = before[i].sourceField
            /\ after[i].isRequired = before[i].isRequired
            /\ after[i].isOptional = before[i].isOptional
            /\ \A j \in 1..Len(before) : j # i => after[j] = before[j]

\* the positions in the mappings array of the entries that the validation
\* accepts
AcceptedAt(raw) ==
  {k \in 1..Len(raw) : ValidMapping(raw[k], request.sourceFields)}

\* the position in the results of the entry pushed for raw[a]
RankOf(raw, a) == Cardinality({k \in AcceptedAt(raw) : k <= a})

\* C15: before the final correction pass an accepted inference entry is
\* required if isRequired === true, whatever isOptional says; else optional
\* if isOptional === true; else required exactly when the catalog is
\* non-empty and its targetField is a catalog name; else optional
C15_ClassificationPriority ==
  (pc = "done" /\ path = "inference") =>
    LET raw == RawMappings
        before == Uncorrected
    IN \A a \in AcceptedAt(raw) :
         LET r == RankOf(raw, a)
             m == raw[a]
             expected ==
               IF Get(m, <<"isRequired">>).t = "true" THEN TRUE
               ELSE IF Get(m, <<"isOptional">>).t = "true" THEN FALSE
               ELSE /\ Catalog # {}
                    /\ Get(m, <<"targetField">>).t = "str"
                    /\ Get(m, <<"targetField">>).s \in Catalog
         IN /\ r <= Len(before)
            /\ before[r].sourceField = Get(m, SourceFieldKey).s
            /\ before[r].isRequired = expected
            /\ before[r].isOptional = ~expected

\* an accepted entry said isRequired = true and isOptional = true with a
\* target outside the catalog and was pushed as required
C15_Witness ==
  /\ pc = "done" /\ path = "inference"
  /\ LET raw == RawMappings
         before == Uncorrected
     IN \E a \in AcceptedAt(raw) :
          /\ Get(raw[a], <<"isRequired">>).t = "true"
          /\ Get(raw[a], <<"isOptional">>).t = "true"
          /\ Get(raw[a], <<"targetField">>).t = "str"
          /\ Get(raw[a], <<"targetField">>).s \notin Catalog
          /\ before[RankOf(raw, a)].isRequired
          /\ ~before[RankOf(raw, a)].isOptional

\* the requested source fields that no accepted inference entry names
UnmappedFields(raw) ==
  {sf \in Requested :
     \A a \in AcceptedAt(raw) : Get(raw[a], SourceFieldKey).s # sf}

CompletenessReason == <<"AI did not map this field - kept as optional">>

\* C16 (as claimed): on the inference path a requested source field that
\* the inference output does not validly map appears in the output as an
\* entry with targetField equal to its sourceField, confidence 0.5,
\* isRequired = false and isOptional = true.
C16_UnmappedKeptOptional ==
  (pc = "done" /\ path = "inference") =>
    LET raw == RawMappings
    IN \A sf \in UnmappedFields(raw) :
         \E i \in OutputIdx :
           /\ Output[i].sourceField = sf
           /\ Output[i].targetField = sf
           /\ Output[i].confidence = Num(1, 2)
           /\ ~Output[i].isRequired
           /\ Output[i].isOptional

\* C16 (amended): such a field appears in exactly one entry, with
\* targetField equal to its sourceField and confidence 0.5; the entry is
\* optional and not required unless the catalog is non-empty and holds the
\* field's name, and then it is required, not optional, and carries the
\* correction note.
C16_UnmappedKept ==
  (pc = "done" /\ path = "inference") =>
    LET raw == RawMappings
    IN \A sf \in UnmappedFields(raw) :
         /\ Cardinality({i \in OutputIdx : Output[i].sourceField = sf}) = 1
         /\ \E i \in OutputIdx :
              /\ Output[i].sourceField = sf
              /\ Output[i].targetField = sf
              /\ Output[i].confidence = Num(1, 2)
              /\ Output[i].isRequired = (sf \in Catalog)
              /\ Output[i].isOptional = (sf \notin Catalog)
              /\ Output[i].reason =
                   IF sf \in Catalog THEN Append(CompletenessReason, CorrectionNote)
                   ELSE CompletenessReason

\* a requested field that the response did not map bears a catalog name and
\* came out required with confidence 0.5 and the correction note
C16_Witness ==
  /\ pc = "done" /\ path = "inference"
  /\ LET raw == RawMappings
     IN \E sf \in UnmappedFields(raw) :
          /\ sf \in Catalog
          /\ \E i \in OutputIdx :
               /\ Output[i].sourceField = sf
               /\ Output[i].targetField = sf
               /\ Output[i].confidence = Num(1, 2)
               /\ Output[i].isRequired
               /\ Output[i].reason = Append(CompletenessReason, CorrectionNote)

\* ai parsed, but to a value without a mappings array, or with an entry
\* that is null: parseAIResponse throws
ParsedUnusable(ai) ==
  /\ ai.ok
  /\ \/ ai.v.t # "obj"
     \/ Get(ai.v, MappingsKey).t # "arr"
     \/ \E k \in 1..Len(Get(ai.v, MappingsKey).items) :
          Get(ai.v, MappingsKey).items[k].t = "null"

\* C17: when the response text survives no repair strategy, or parses to a
\* value that has no mappings array, mapFields returns exactly what
\* fallbackMapping returns for the request, as it does when the call
\* itself fails; nothing of the response is in that result
C17_ParseFailureFallsBack ==
  (pc = "done" /\ response.kind = "text" /\ response.text # <<>>) =>
    LET ai == AiResult
    IN (~ai.ok \/ ParsedUnusable(ai)) =>
         /\ path = "fallback"
         /\ outcome.kind = "returned"
         /\ Output = fallbackMapping(request)
         /\ Output = mapFieldsResume(request, [kind |-> "transport", text |-> <<>>],
                                     1).outcome.results

\* a response whose mappings array holds a valid entry and then null was
\* answered by a non-empty fallback result
C17_Witness ==
  /\ pc = "done" /\ path = "fallback" /\ Len(Output) > 0
  /\ AiResult.ok
  /\ Len(RawMappings) = 2
  /\ ValidMapping(RawMappings[1], request.sourceFields)
  /\ RawMappings[2].t = "null"

\* position k of the catalog holds the highest similarity to the source
\* name and is the earliest position that does
EarliestMostSimilar(sourceField, targetFields, k) ==
  LET sim == [j \in 1..Len(targetFields) |->
                SelectionSimilarity(sourceField, targetFields[j])]
  IN /\ \A j \in 1..Len(targetFields) : ~NumLess(sim[k], sim[j])
     /\ \A j \in 1..(k - 1) : NumLess(sim[j], sim[k])

\* C18: findBestFallbackMatch returns, for a non-empty catalog, the catalog
\* field of the first rule in table order whose key is in the catalog and
\* one of whose patterns is contained in the lowercased source name; when no
\* rule hits, the catalog field of highest similarity to the lowercased
\* source name, the earliest in catalog order on ties; for an empty catalog
\* it returns no match
C18_RuleThenSimilarity ==
  engine.op = "match" =>
    LET sf == engine.sourceField
        tfs == engine.targetFields
    IN IF Len(tfs) = 0 THEN engine.bestMatch = NoField
       ELSE IF RulesHit(sf, tfs) # {}
       THEN /\ engine.bestMatch = FirstRuleTarget(sf, tfs)
            /\ \E k \in 1..Len(tfs) : tfs[k] = engine.bestMatch
       ELSE \E k \in 1..Len(tfs) :
              /\ engine.bestMatch = tfs[k]
              /\ EarliestMostSimilar(sf, tfs, k)

\* no rule hit, two catalog names were equally similar to the source name,
\* and the first of them was returned
C18_Witness ==
  /\ engine.op = "match"
  /\ Len(engine.targetFields) >= 2
  /\ RulesHit(engine.sourceField, engine.targetFields) = {}
  /\ engine.bestMatch = engine.targetFields[1]
  /\ \E j \in 2..Len(engine.targetFields) :
       LET first == SelectionSimilarity(engine.sourceField, engine.targetFields[1])
           other == SelectionSimilarity(engine.sourceField, engine.targetFields[j])
       IN ~NumLess(first, other) /\ ~NumLess(other, first)
  /\ NumLess(Num(0, 1), SelectionSimilarity(engine.sourceField, engine.targetFields[1]))

\* C19 (as claimed): the confidence of every fallback match equals
\* max(0.2, s), s being the similarity that the selection step computes
\* between the lowercased source name and the lowercased name of the chosen
\* target; it is at least 0.2 and at most 1.
C19_ConfidenceIsSelectionSimilarity ==
  engine.op = "fallback" =>
    \A i \in 1..Len(engine.results) :
      LET r == engine.results[i]
          reported == r.confidence
          claimed == NumMax(Num(1, 5), SelectionSimilarity(r.sourceField, r.targetField))
      IN r.isRequired =>
           /\ ~NumLess(reported, claimed)
           /\ ~NumLess(claimed, reported)
           /\ ~NumLess(reported, Num(1, 5))
           /\ ~NumLess(Num(1, 1), reported)

Least(S) == CHOOSE x \in S : \A y \in S : x <= y

\* the unit-cost edit distance by its recurrence on the strings themselves:
\* the least number of insertions, deletions and substitutions of single
\* characters that turn a into b
RECURSIVE EditDistance(_, _)
EditDistance(a, b) ==
  IF a = <<>> THEN Len(b)
  ELSE IF b = <<>> THEN Len(a)
  ELSE Least({EditDistance(Tail(a), Tail(b)) + (IF Head(a) = Head(b) THEN 0 ELSE 1),
              EditDistance(Tail(a), b) + 1,
              EditDistance(a, Tail(b)) + 1})

\* C20: levenshteinDistance is the standard unit-cost edit distance of the
\* two full strings, and distance(a, b) = distance(b, a)
C20_StandardAndSymmetric ==
  engine.op = "distance" =>
    /\ engine.ab = EditDistance(engine.a, engine.b)
    /\ engine.ab = engine.ba

\* the distance of two strings of different lengths that share no prefix
\* was computed in both orders and is smaller than the longer length
C20_Witness ==
  /\ engine.op = "distance"
  /\ Len(engine.a) = MaxWordLength
  /\ Len(engine.b) = 2
  /\ engine.a[1] # engine.b[1]
  /\ engine.ab = 2
  /\ engine.ba = 2

\* the fraction x has the value 1
IsOne(x) == x.t = "num" /\ x.d > 0 /\ x.n = x.d

\* C21: calculateSimilarity(a, a) = 1.0 for every non-empty string a, and
\* calculateSimilarity('', '') = 1.0
C21_SelfSimilarity ==
  (engine.op = "similarity" /\ engine.a = engine.b) => IsOne(engine.similarity)

\* the similarity of a string of the greatest length with itself was
\* computed
C21_Witness ==
  /\ engine.op = "similarity"
  /\ engine.a = engine.b
  /\ Len(engine.a) = MaxWordLength
  /\ engine.similarity = Num(MaxWordLength, MaxWordLength)

(***************************************************************************)
(* C29: for every transposed sheet, every key of the fieldDescriptions map  *)
(* that parseTransposedExcelTemplate returns is also a key of the record it *)
(* returns.                                                                 *)
(***************************************************************************)
C29_DescriptionsHaveRecordKeys ==
  (sheet.op = "cleaned" /\ sheet.result.layout = "transposed") =>
    LET fieldDescriptions == sheet.result.fieldDescriptions
        processedData == sheet.result.processedData
    IN \A k \in 1..Len(fieldDescriptions) :
         /\ Len(processedData) = 1
         /\ HasKey(processedData[1], fieldDescriptions[k][1])

(***************************************************************************)
(* C23: in the flat-table layout each input row yields a record whose keys  *)
(* are the row's keys that are not empty, whitespace-only or named with a   *)
(* placeholder prefix ('__EMPTY', '_EMPTY'), trimmed, each carrying the     *)
(* row's own value for that key; only rows left with no key are removed.    *)
(***************************************************************************)
\* the keys of the row that the claim keeps
KeptKeys(row) ==
  SelectSeq(RowKeys(row),
            LAMBDA key : /\ StrTrim(key) # <<>>
                         /\ ~startsWith(key, EmptyPrefix)
                         /\ ~startsWith(key, EmptyShortPrefix))

\* the record that the claim describes for one row
ExpectedRecord(row) ==
  LET kept == KeptKeys(row)
  IN [k \in 1..Len(kept) |-> <<StrTrim(kept[k]), RowGet(row, kept[k])>>]

C23_FlatRecords ==
  (sheet.op = "cleaned" /\ sheet.result.layout = "flat") =>
    LET expected == [r \in 1..Len(sheet.data) |-> ExpectedRecord(sheet.data[r])]
    IN sheet.result.processedData = SelectSeq(expected, LAMBDA row : Len(row) > 0)

(***************************************************************************)
(* C22: a sheet with fewer than 3 rows is always normalised by the          *)
(* flat-table rule, whatever its column names and cell contents.            *)
(***************************************************************************)
C22_ShortSheetIsFlat ==
  (sheet.op \in {"cleaned", "read"} /\ Len(sheet.data) < 3) =>
    /\ sheet.result.processedData = FlatTable(sheet.data)
    /\ sheet.result.fieldDescriptions = <<>>

(***************************************************************************)
(* C24: in the label/value/description template layout, for every column    *)
(* position whose row-2 cell holds a non-empty field name, the record maps  *)
(* that field name to the row-3 value at the same column position (a blank  *)
(* value gives no entry), and the description segments found at that column *)
(* position in the two rows after a row-5 sentinel are space-joined into    *)
(* fieldDescriptions under that same field name.                            *)
(***************************************************************************)
\* the description segments of column c in rows 6 and 7, space-joined
ColumnDescription(data, c) ==
  LET seg(r) == IF Len(data) >= r /\ CellIsText(RowValues(data[r])[c])
                THEN StrTrim(RowValues(data[r])[c].s) ELSE <<>>
  IN IF seg(6) # <<>> /\ seg(7) # <<>> THEN seg(6) \o <<" ">> \o seg(7)
     ELSE seg(6) \o seg(7)

C24_TemplateByColumn ==
  (sheet.op = "cleaned" /\ sheet.result.layout = "template") =>
    LET data == sheet.data
        processedData == sheet.result.processedData
        fieldDescriptions == sheet.result.fieldDescriptions
        names == RowValues(data[2])
        values == RowValues(data[3])
    IN \A c \in 1..Len(names) :
         CellIsText(names[c]) =>
           /\ CellNonBlank(values[c]) =>
                /\ Len(processedData) = 1
                /\ HasKey(processedData[1], names[c].s)
                /\ RowGet(processedData[1], names[c].s) = values[c]
           /\ (/\ Len(data) >= 6
               /\ hasDescriptionMarker(data[5])
               /\ ColumnDescription(data, c) # <<>>) =>
                /\ HasKey(fieldDescriptions, names[c].s)
                /\ RowGet(fieldDescriptions, names[c].s) = ColumnDescription(data, c)

(***************************************************************************)
(* C25: on save, every entry held by the session is sent to exactly one of  *)
(* the two collections, required entries to field_mappings and optional     *)
(* entries to optional_fields, also after toggles and manual overrides.     *)
(***************************************************************************)
\* the entries of the saved list are split by their flags between the two
\* service calls
SentSplit ==
  \A i \in 1..Len(ui.sent.of) :
    /\ (i \in ui.sent.required) # (i \in ui.sent.optional)
    /\ i \in ui.sent.required <=> ui.sent.of[i].isRequired
    /\ i \in ui.sent.optional <=> ui.sent.of[i].isOptional

C28_EditsKeepClassification ==
  ui.op = "session" =>
    \A i \in 1..Len(ui.mappings) :
      /\ ui.mappings[i].isRequired # ui.mappings[i].isOptional
      /\ (\E t \in 1..Len(ui.targetFields) :
            ui.mappings[i].targetField = ui.targetFields[t])
           => ui.mappings[i].isRequired

(***************************************************************************)
(* C27: two mapFields invocations that run concurrently on the shared       *)
(* singleton service do not affect each other: for every interleaving of    *)
(* their steps, each returns the result it would return if run alone with   *)
(* the same request and the same inference response.                        *)
(***************************************************************************)
\* what one invocation returns or throws when nothing else runs
RunAlone(req, resp) ==
  LET entry == mapFieldsEntry(req, apiKey)
  IN IF entry.pc = "awaiting"
     THEN PairResume[req][resp].outcome
     ELSE entry.outcome

FileIds == 1..(MaxDrops * MaxFiles)

Dropped(f) == upload.op = "upload" /\ f <= Len(upload.files)

AcceptedFile(f) == Dropped(f) /\ upload.files[f].accepted

FinalStatus(f) ==
  Dropped(f) /\ upload.files[f].status \in {"completed", "error"}

Completed(f) == Dropped(f) /\ upload.files[f].status = "completed"

\* the moves of the status of an accepted file
StatusMoves ==
  {<<"none", "uploading">>, <<"uploading", "processing">>,
   <<"processing", "completed">>, <<"processing", "error">>}

\* status, parse outcome and callback count of an accepted file agree
UploadConsistent ==
  \A f \in FileIds :
    AcceptedFile(f) =>
      LET file == upload.files[f]
      IN /\ file.status = "completed" =>
              file.parsed = "parsed" /\ file.calls = 1 /\ file.projectId # "none"
         /\ file.status = "error" =>
              file.parsed \in {"read failed", "parse failed"} /\ file.calls = 0
         /\ file.status \in {"none", "uploading", "processing"} => file.calls = 0
         /\ file.parsed = "parsed" => file.status \in {"processing", "completed"}

\* a step moves the status of an accepted file along StatusMoves only, and
\* a final status stays
UploadMoves ==
  \A f \in FileIds :
    AcceptedFile(f) =>
      \/ upload'.files[f].status = upload.files[f].status
      \/ <<upload.files[f].status, upload'.files[f].status>> \in StatusMoves

C30_UploadStatus ==
  /\ [](upload.op = "upload" => UploadConsistent)
  /\ [][upload.op = "upload" => UploadMoves]_vars
  /\ \A f \in FileIds : AcceptedFile(f) ~> FinalStatus(f)
  /\ \A f \in FileIds :
       (AcceptedFile(f) /\ upload.files[f].parsed = "parsed")
         ~> Completed(f)

====
